---- MODULE Spec2Model ----
(***************************************************************************)
(* Session / command orchestration engine of the control server            *)
(* (src/remote_control_handler.py, class RemoteControlHandler).            *)
(*                                                                         *)
(* The Registry is the dict connected_clients_sio, the Tracker is the dict *)
(* command_queue.  Python dicts are functions whose DOMAIN is the key set. *)
(* The clock `now` stands for datetime.datetime.now(); one unit is one     *)
(* second, and timeouts and the status limits are in the same unit.        *)
(***************************************************************************)
EXTENDS Integers, Sequences, FiniteSets, TLC

VARIABLES
    connected_clients_sio,  \* Registry: sid -> client record (a dict)
    command_queue,          \* Tracker: command_id -> in-flight record
    location_history,       \* device_id -> content of location_history.json
    now,                    \* the wall clock read by datetime.now()
    open,                   \* sids whose transport connection is open
    closed,                 \* sids whose connection has ended (never reused)
    watchers,               \* timeout threads started by send_command_to_client
    responders,             \* event handler threads (stepwise run)
    calls,                  \* operator-side calls in progress (stepwise run)
    broadcasts,             \* <<event, command_id>> -> number of broadcasts
    registered,             \* history: sid -> registered since last disconnect
    events,                 \* history: how many events the environment has sent
    last                    \* the handler run that produced this state

vars == <<connected_clients_sio, command_queue, location_history, now, open,
          closed, watchers, responders, calls, broadcasts, registered, events,
          last>>

-----------------------------------------------------------------------------
(* Bounds of the exploration.                                              *)
MaxEvents == 7
MaxRaceEvents == 5
MaxLocationEvents == 5
MaxCounterEvents == 5
MaxCallEvents == 5
MaxSessionEvents == 5
MaxSortEvents == 6
MaxDispatchEvents == 5
MaxReportEvents == 5
MaxSaveEvents == 5

MaxReadEvents == 6

MaxExpiryEvents == 4

MaxOrderEvents == 5
Resolution == 2
Margin == 1

(* Program constants.                                                      *)
command_timeout == 30
ActiveLimit == 60
IdleLimit == 300

-----------------------------------------------------------------------------
(* Input alphabets.                                                        *)
SIDs == {"s1", "s2"}
None == "None"
NoCommandId == <<>>

\* register_device payloads: full, defaults only, empty deviceId, no deviceId
RegisterPayloads ==
    { [deviceId |-> "d1", deviceName |-> "phone", platform |-> "android"],
      [deviceId |-> "d2"],
      [deviceId |-> ""],
      [deviceName |-> "phone"] }

\* device_heartbeat payloads: a dict or something that is not a dict
HeartbeatPayloads ==
    { [isdict |-> TRUE, d |-> <<>>],
      [isdict |-> TRUE, d |-> [status |-> "busy"]],
      [isdict |-> TRUE, d |-> [battery |-> "80", network |-> "wifi"]],
      [isdict |-> FALSE, d |-> <<>>] }

\* the two payloads that decide the handlers' branches
LeanRegister ==
    { [deviceId |-> "d1", deviceName |-> "phone", platform |-> "android"],
      [deviceId |-> ""] }
LeanHeartbeat == {[isdict |-> TRUE, d |-> <<>>]}

\* the timeout argument of a dispatch: absent (<<>>, Python's None) or a
\* number of seconds <<n>>
NoTimeout == <<>>

-----------------------------------------------------------------------------
(* Python dict operations.                                                 *)
Get(d, k, default) == IF k \in DOMAIN d THEN d[k] ELSE default
Put(d, k, v) == [x \in DOMAIN d \cup {k} |-> IF x = k THEN v ELSE d[x]]
Pop(d, k) == [x \in DOMAIN d \ {k} |-> d[x]]
EmptyDict == <<>>

\* datetime.isoformat() and datetime.fromisoformat(): a tagged text form
isoformat(t) == <<"iso", t>>
fromisoformat(s) == s[2]

\* request.remote_addr of a connection
remote_addr(sid) == IF sid = "s1" THEN "10.0.0.1" ELSE "10.0.0.2"

\* f"Device_{client_sid[:6]}"
default_device_name(sid) == "Device_" \o sid

\* Python truthiness of a payload value that is a string or None
Truthy(v) == v # None /\ v # ""

\* one emitted message
Msg(event, room, key) == [event |-> event, room |-> room, key |-> key]
Broadcast == "*"

CountIn(b, event, key) == Get(b, <<event, key>>, 0)
Count(event, key) == CountIn(broadcasts, event, key)

Bump(b, event, key) == Put(b, <<event, key>>, Get(b, <<event, key>>, 0) + 1)

Events(l) == {l.out[i].event : i \in 1..Len(l.out)}

-----------------------------------------------------------------------------
Init ==
    /\ connected_clients_sio = EmptyDict
    /\ command_queue = EmptyDict
    /\ location_history = EmptyDict
    /\ now = 0
    /\ open = {}
    /\ closed = {}
    /\ watchers = <<>>
    /\ responders = <<>>
    /\ calls = <<>>
    /\ broadcasts = EmptyDict
    /\ registered = [s \in SIDs |-> FALSE]
    /\ events = 0
    /\ last = [op |-> "init", sid |-> None, result |-> None, out |-> <<>>]

\* the clock advances by d seconds
Tick(d) ==
    /\ d > 0
    /\ now' = now + d
    /\ last' = [op |-> "tick", sid |-> None, result |-> None, out |-> <<>>]
    /\ UNCHANGED <<calls, connected_clients_sio, command_queue, location_history,
                   open, closed, watchers, responders, broadcasts, registered>>

\* @socketio.on("connect")
handle_sio_connect(client_sid) ==
    /\ client_sid \notin open \cup closed
    /\ open' = open \cup {client_sid}
    /\ last' = [op |-> "connect", sid |-> client_sid, result |-> None,
                out |-> <<Msg("connection_acknowledged", client_sid, client_sid)>>]
    /\ UNCHANGED <<calls, connected_clients_sio, command_queue, location_history,
                   now, closed, watchers, responders, broadcasts, registered>>

\* a disconnect that forgets the Registry entry it should remove
DisconnectClientsKeeps(clients, client_sid) == clients

\* what handle_sio_disconnect does to the Registry and what it broadcasts
DisconnectClients(clients, client_sid) ==
    IF client_sid \in DOMAIN clients THEN Pop(clients, client_sid) ELSE clients

\* a disconnect that announces the session id instead of the device id
DisconnectOutSid(clients, client_sid) ==
    IF client_sid \in DOMAIN clients
    THEN <<Msg("client_disconnected", Broadcast, client_sid)>>
    ELSE <<>>

DisconnectOut(clients, client_sid) ==
    IF client_sid \in DOMAIN clients
    THEN <<Msg("client_disconnected", Broadcast,
               Get(clients[client_sid], "id", client_sid))>>
    ELSE <<>>

\* @socketio.on("disconnect")
handle_sio_disconnect(client_sid) ==
    /\ client_sid \in open
    /\ open' = open \ {client_sid}
    /\ closed' = closed \cup {client_sid}
    /\ registered' = [registered EXCEPT ![client_sid] = FALSE]
    /\ connected_clients_sio' = DisconnectClients(connected_clients_sio, client_sid)
    /\ last' = [op |-> "disconnect", sid |-> client_sid, result |-> None,
                out |-> DisconnectOut(connected_clients_sio, client_sid)]
    /\ watchers' = [i \in 1..Len(watchers) |->
                        IF watchers[i].target = client_sid
                        THEN [watchers[i] EXCEPT !.stayed = FALSE]
                        ELSE watchers[i]]
    /\ UNCHANGED <<calls, command_queue, location_history, now, responders,
                   broadcasts>>

\* a registration that keeps the counters of the record it replaces
NewClientKeepsCounters(client_sid, data) ==
    LET old == Get(connected_clients_sio, client_sid, EmptyDict) IN
    [sid |-> client_sid,
     id |-> Get(data, "deviceId", None),
     name_display |-> Get(data, "deviceName", default_device_name(client_sid)),
     platform |-> Get(data, "platform", "Unknown"),
     ip |-> remote_addr(client_sid),
     connected_at |-> isoformat(now),
     last_seen |-> isoformat(now),
     status |-> "active",
     commands_sent |-> Get(old, "commands_sent", 0),
     commands_succeeded |-> Get(old, "commands_succeeded", 0),
     commands_failed |-> Get(old, "commands_failed", 0)]

\* the record handle_register_device stores
NewClient(client_sid, data) ==
    [sid |-> client_sid,
     id |-> Get(data, "deviceId", None),
     name_display |-> Get(data, "deviceName", default_device_name(client_sid)),
     platform |-> Get(data, "platform", "Unknown"),
     ip |-> remote_addr(client_sid),
     connected_at |-> isoformat(now),
     last_seen |-> isoformat(now),
     status |-> "active",
     commands_sent |-> 0,
     commands_succeeded |-> 0,
     commands_failed |-> 0]

\* a refusal that tests "is None" and so lets the empty deviceId through
RegistrationRefusedNone(data) == Get(data, "deviceId", None) = None

\* "if not device_identifier": the registration is refused
RegistrationRefused(data) == ~Truthy(Get(data, "deviceId", None))

\* what handle_register_device does to the Registry and what it emits
RegisterClients(clients, client_sid, data) ==
    IF RegistrationRefused(data) THEN clients
    ELSE Put(clients, client_sid, NewClient(client_sid, data))

RegisterOut(client_sid, data) ==
    IF RegistrationRefused(data)
    THEN <<Msg("registration_failed", client_sid, None)>>
    ELSE <<Msg("registration_successful", client_sid, client_sid),
           Msg("client_connected", Broadcast, Get(data, "deviceId", None))>>

\* history: the event carries a deviceId that is a non-empty string
HasDeviceId(data) ==
    "deviceId" \in DOMAIN data /\ data["deviceId"] \notin {"", None}

\* @socketio.on("register_device")
handle_register_device(client_sid, data) ==
    /\ client_sid \in open
    /\ registered' = [registered EXCEPT ![client_sid] = @ \/ HasDeviceId(data)]
    /\ connected_clients_sio' =
           RegisterClients(connected_clients_sio, client_sid, data)
    /\ last' = [op |-> "register_device", sid |-> client_sid,
                result |-> IF RegistrationRefused(data)
                           THEN "failed" ELSE "registered",
                out |-> RegisterOut(client_sid, data)]
    /\ UNCHANGED <<calls, command_queue, location_history, now, open, closed, watchers,
                   responders, broadcasts>>

\* a heartbeat that resets status to "active" when it supplies none
HeartbeatFieldsDefaults(client, data) ==
    LET c1 == Put(client, "status",
                  IF data.isdict /\ "status" \in DOMAIN data.d
                  THEN data.d["status"] ELSE "active")
        c2 == IF data.isdict /\ "battery" \in DOMAIN data.d
              THEN Put(c1, "battery", data.d["battery"]) ELSE c1
    IN IF data.isdict /\ "network" \in DOMAIN data.d
       THEN Put(c2, "network", data.d["network"]) ELSE c2

\* the heartbeat's optional status, battery and network fields
HeartbeatFields(client, data) ==
    IF ~data.isdict THEN client
    ELSE LET c1 == IF "status" \in DOMAIN data.d
                   THEN Put(client, "status", data.d["status"]) ELSE client
             c2 == IF "battery" \in DOMAIN data.d
                   THEN Put(c1, "battery", data.d["battery"]) ELSE c1
         IN IF "network" \in DOMAIN data.d
            THEN Put(c2, "network", data.d["network"]) ELSE c2

\* what handle_device_heartbeat does to the Registry and what it emits
HeartbeatClients(clients, client_sid, data) ==
    IF client_sid \in DOMAIN clients
    THEN Put(clients, client_sid,
             HeartbeatFields(Put(clients[client_sid], "last_seen",
                                 isoformat(now)), data))
    ELSE clients

\* a heartbeat that is acknowledged before the session is looked up
HeartbeatOutAcks(clients, client_sid, data) ==
    IF client_sid \in DOMAIN clients
    THEN <<Msg("heartbeat_ack", client_sid, None),
           Msg("client_status_update", Broadcast, clients[client_sid]["id"])>>
    ELSE <<Msg("heartbeat_ack", client_sid, None),
           Msg("request_registration_info", client_sid, None)>>

HeartbeatOut(clients, client_sid, data) ==
    IF client_sid \in DOMAIN clients
    THEN LET client == HeartbeatClients(clients, client_sid, data)[client_sid]
         IN <<Msg("heartbeat_ack", client_sid, None),
              [event |-> "client_status_update", room |-> Broadcast,
               key |-> client["id"], last_seen |-> client["last_seen"],
               status |-> Get(client, "status", "active")]>>
    ELSE <<Msg("request_registration_info", client_sid, None)>>

\* @socketio.on("device_heartbeat")
handle_device_heartbeat(client_sid, data) ==
    /\ client_sid \in open
    /\ connected_clients_sio' =
           HeartbeatClients(connected_clients_sio, client_sid, data)
    /\ last' = [op |-> "device_heartbeat", sid |-> client_sid, result |-> None,
                out |-> HeartbeatOut(connected_clients_sio, client_sid, data)]
    /\ UNCHANGED <<calls, command_queue, location_history, now, open, closed, watchers,
                   responders, broadcasts, registered>>

-----------------------------------------------------------------------------
(* Command dispatch and tracking.                                          *)

\* f"{command_name}_{datetime.datetime.now().strftime('%Y%m%d%H%M%S%f')}"
CommandId(command_name, t) == <<command_name, t>>

\* the record send_command_to_client puts into command_queue
NewCommand(command_name, args, target_sid, client_info, timeout) ==
    [command |-> command_name,
     args |-> args,
     target_sid |-> target_sid,
     device_id |-> client_info["id"],
     sent_at |-> isoformat(now),
     status |-> "pending",
     timeout |-> timeout]

\* the thread started on _monitor_command_timeout(command_id, timeout);
\* target, stayed and answered are history: the dispatch's target, whether
\* that session has stayed in the Registry since the dispatch, and whether a
\* command_response carrying the command_id has arrived since the dispatch
NewWatcher(command_id, timeout, target_sid) ==
    [command_id |-> command_id, timeout |-> timeout, started |-> now,
     pc |-> "wait", command_info |-> EmptyDict, client_info |-> EmptyDict,
     target |-> target_sid, stayed |-> TRUE, answered |-> FALSE]

\* history: a command_response carrying command_id has arrived
MarkAnswered(threads, command_id) ==
    [i \in 1..Len(threads) |->
        IF threads[i].command_id = command_id
        THEN [threads[i] EXCEPT !.answered = TRUE]
        ELSE threads[i]]

\* timeout=None takes self.command_timeout
EffectiveTimeout(timeout) ==
    IF timeout = NoTimeout THEN command_timeout ELSE timeout[1]

\* a dispatch that also refreshes the target's last_seen
SentStatsSeen(clients, target_sid) ==
    Put(clients, target_sid,
        Put(Put(clients[target_sid], "last_seen", isoformat(now)),
            "commands_sent", Get(clients[target_sid], "commands_sent", 0) + 1))

\* "client_info["commands_sent"] = client_info.get("commands_sent", 0) + 1"
SentStats(clients, target_sid) ==
    Put(clients, target_sid,
        Put(clients[target_sid], "commands_sent",
            Get(clients[target_sid], "commands_sent", 0) + 1))

\* what a dispatch does to the Tracker, the Registry and the monitor threads
DispatchQueue(queue, clients, target_sid, command_name, args, timeout) ==
    IF target_sid \in DOMAIN clients
    THEN Put(queue, CommandId(command_name, now),
             NewCommand(command_name, args, target_sid, clients[target_sid],
                        timeout))
    ELSE queue

DispatchClients(clients, target_sid) ==
    IF target_sid \in DOMAIN clients THEN SentStats(clients, target_sid)
    ELSE clients

\* a dispatch that starts its monitor thread before looking the target up
DispatchWatchersEarly(threads, clients, target_sid, command_name, timeout) ==
    Append(threads, NewWatcher(CommandId(command_name, now), timeout,
                               target_sid))

DispatchWatchers(threads, clients, target_sid, command_name, timeout) ==
    IF target_sid \in DOMAIN clients
    THEN Append(threads, NewWatcher(CommandId(command_name, now), timeout,
                                    target_sid))
    ELSE threads

\* the command message, the command_sent broadcast and the returned dict
DispatchOut(clients, target_sid, command_name) ==
    IF target_sid \in DOMAIN clients
    THEN <<Msg("command", target_sid, CommandId(command_name, now)),
           Msg("command_sent", Broadcast, CommandId(command_name, now))>>
    ELSE <<>>

DispatchResult(clients, target_sid, command_name) ==
    IF target_sid \in DOMAIN clients
    THEN [status |-> "sent", command_id |-> CommandId(command_name, now)]
    ELSE [status |-> "error", command_id |-> NoCommandId]

\* the broadcasts of a message list counted into the broadcast history
RECURSIVE Counted(_, _)
Counted(b, out) ==
    IF out = <<>> THEN b
    ELSE Counted(IF Head(out).event \in {"command_sent", "command_result",
                                         "command_timeout"}
                 THEN Bump(b, Head(out).event, Head(out).key) ELSE b,
                 Tail(out))

send_command_to_client(target_sid, command_name, args, timeout_arg) ==
    LET timeout == EffectiveTimeout(timeout_arg) IN
    /\ command_queue' = DispatchQueue(command_queue, connected_clients_sio,
                                      target_sid, command_name, args, timeout)
    /\ connected_clients_sio' = DispatchClients(connected_clients_sio, target_sid)
    /\ watchers' = DispatchWatchers(watchers, connected_clients_sio, target_sid,
                                    command_name, timeout)
    /\ broadcasts' = Counted(broadcasts,
                             DispatchOut(connected_clients_sio, target_sid,
                                         command_name))
    /\ last' = [op |-> "send_command", sid |-> target_sid,
                result |-> DispatchResult(connected_clients_sio, target_sid,
                                          command_name),
                out |-> DispatchOut(connected_clients_sio, target_sid,
                                    command_name)]
    /\ UNCHANGED <<calls, location_history, now, open, closed, responders, registered>>

\* a timeout that also resets the target's last_seen
TimeoutStatsStamped(clients, target_sid) ==
    IF target_sid \in DOMAIN clients
    THEN Put(clients, target_sid,
             Put(Put(clients[target_sid], "last_seen", isoformat(0)),
                 "commands_failed",
                 Get(clients[target_sid], "commands_failed", 0) + 1))
    ELSE clients

\* commands_failed += 1 on the target's record, if it is still connected
TimeoutStats(clients, target_sid) ==
    IF target_sid \in DOMAIN clients
    THEN Put(clients, target_sid,
             Put(clients[target_sid], "commands_failed",
                 Get(clients[target_sid], "commands_failed", 0) + 1))
    ELSE clients

\* threading.Event().wait(timeout) has returned
WaitOver(w) == now >= w.started + w.timeout

\* the expiry check of _monitor_command_timeout: what it does to the
\* Tracker and the Registry and what it broadcasts
ExpireQueue(queue, command_id) ==
    IF command_id \in DOMAIN queue THEN Pop(queue, command_id) ELSE queue

\* an expiry that counts the failure on every registered session
ExpireClientsEveryone(queue, clients, command_id) ==
    IF command_id \in DOMAIN queue
           /\ queue[command_id]["target_sid"] \in DOMAIN clients
    THEN [s \in DOMAIN clients |->
             Put(clients[s], "commands_failed",
                 Get(clients[s], "commands_failed", 0) + 1)]
    ELSE clients

ExpireClients(queue, clients, command_id) ==
    IF command_id \in DOMAIN queue
    THEN TimeoutStats(clients, queue[command_id]["target_sid"])
    ELSE clients

\* an expiry that broadcasts without looking at the Tracker
ExpireOutAlways(queue, command_id) ==
    <<Msg("command_timeout", Broadcast, command_id)>>

ExpireOut(queue, command_id) ==
    IF command_id \in DOMAIN queue
    THEN <<Msg("command_timeout", Broadcast, command_id)>>
    ELSE <<>>

\* _monitor_command_timeout run in one piece once its wait is over
monitor_command_timeout(i) ==
    LET w == watchers[i] IN
    /\ w.pc = "wait"
    /\ WaitOver(w)
    /\ command_queue' = ExpireQueue(command_queue, w.command_id)
    /\ connected_clients_sio' =
           ExpireClients(command_queue, connected_clients_sio, w.command_id)
    /\ broadcasts' = Counted(broadcasts, ExpireOut(command_queue, w.command_id))
    /\ watchers' = [watchers EXCEPT
                        ![i].pc = "done",
                        ![i].command_info =
                            Get(command_queue, w.command_id, EmptyDict)]
    /\ last' = [op |-> "monitor_timeout", sid |-> None, result |-> w.command_id,
                out |-> ExpireOut(command_queue, w.command_id)]
    /\ UNCHANGED <<calls, location_history, now, open, closed, responders, registered>>

-----------------------------------------------------------------------------
(* Command responses.                                                      *)

\* f"https://www.google.com/maps?q={lat},{lng}" and the <a href=...> link
maps_url(lat, lng) == <<"https://www.google.com/maps?q=", lat, lng>>
html_link(lat, lng) ==
    <<"<a href='", maps_url(lat, lng), "' target='_blank'>Ver en Google Maps</a>">>

\* device_info["id"] if device_info and "id" in device_info else f"SID_{sid}"
DeviceIdStr(clients, client_sid) ==
    IF /\ client_sid \in DOMAIN clients
       /\ DOMAIN clients[client_sid] # {}
       /\ "id" \in DOMAIN clients[client_sid]
    THEN clients[client_sid]["id"]
    ELSE "SID_" \o client_sid

\* the four fields handle_command_response reads from the event data
ResponseFields(data) ==
    [command_name |-> Get(data, "command", "unknown_command"),
     command_id |-> Get(data, "command_id", NoCommandId),
     status |-> Get(data, "status", "unknown"),
     payload |-> Get(data, "payload", EmptyDict)]

\* a location report recognized whatever its status
IsLocationReportAnyStatus(f) ==
    /\ f.command_name = "command_get_location"
    /\ "latitude" \in DOMAIN f.payload
    /\ "longitude" \in DOMAIN f.payload

\* a successful location report that carries both coordinates
IsLocationReport(f) ==
    /\ f.command_name = "command_get_location"
    /\ f.status = "success"
    /\ "latitude" \in DOMAIN f.payload
    /\ "longitude" \in DOMAIN f.payload

\* the payload with the map links added
EnrichedPayload(f) ==
    IF IsLocationReport(f)
    THEN Put(Put(f.payload, "maps_url",
                 maps_url(f.payload["latitude"], f.payload["longitude"])),
             "html_link",
             html_link(f.payload["latitude"], f.payload["longitude"]))
    ELSE f.payload

\* _save_location_to_db: read the history file, append, write it back
save_location_to_db(history, device_id, latitude, longitude, accuracy, timestamp) ==
    LET location_data == [latitude |-> latitude, longitude |-> longitude,
                          accuracy |-> accuracy, timestamp |-> timestamp,
                          recorded_at |-> isoformat(now)]
        existing_data == Get(history, device_id, <<>>)
    IN Put(history, device_id, Append(existing_data, location_data))

\* the location step of handle_command_response
LocationStep(history, clients, client_sid, f) ==
    IF IsLocationReport(f)
    THEN save_location_to_db(history, DeviceIdStr(clients, client_sid),
                             f.payload["latitude"], f.payload["longitude"],
                             Get(f.payload, "accuracy", "0"),
                             Get(f.payload, "timestamp_gps", isoformat(now)))
    ELSE history

\* "if device_info:" on the record read at the handler's start (line 200)
HasDeviceInfo(clients, client_sid) ==
    client_sid \in DOMAIN clients /\ DOMAIN clients[client_sid] # {}

\* statistics that are updated on every record instead of the responder's
ResponseStatsEveryone(clients, client_sid, status) ==
    [s \in DOMAIN clients |->
        IF status = "success"
        THEN Put(clients[s], "commands_succeeded",
                 Get(clients[s], "commands_succeeded", 0) + 1)
        ELSE IF status \in {"error", "failed"}
        THEN Put(clients[s], "commands_failed",
                 Get(clients[s], "commands_failed", 0) + 1)
        ELSE clients[s]]

\* "Update command statistics" on the responding session's record
ResponseStats(clients, client_sid, status) ==
    IF HasDeviceInfo(clients, client_sid)
    THEN LET device_info == clients[client_sid]
         IN IF status = "success"
            THEN Put(clients, client_sid,
                     Put(device_info, "commands_succeeded",
                         Get(device_info, "commands_succeeded", 0) + 1))
            ELSE IF status \in {"error", "failed"}
            THEN Put(clients, client_sid,
                     Put(device_info, "commands_failed",
                         Get(device_info, "commands_failed", 0) + 1))
            ELSE clients
    ELSE clients

\* "if command_id and command_id in self.command_queue"
InQueue(queue, command_id) ==
    command_id # NoCommandId /\ command_id \in DOMAIN queue

\* the command_result broadcast
ResultMsg(device_id_str, f) ==
    [event |-> "command_result", room |-> Broadcast, key |-> f.command_id,
     device_id |-> device_id_str,
     command |-> f.command_name, status |-> f.status,
     payload |-> EnrichedPayload(f)]

\* the handler thread of one command_response event: its locals device_info
\* (whether it is truthy) and device_id_str, and the counter value it has read
NewResponder(client_sid, data, device_id_str, device_info) ==
    [sid |-> client_sid, data |-> data, device_id_str |-> device_id_str,
     device_info |-> device_info, read |-> <<>>,
     pc |-> "test", popped |-> FALSE]

\* a handler that forwards the result only while the command is tracked
handle_command_response_if_tracked(client_sid, data) ==
    LET f == ResponseFields(data)
        out == IF InQueue(command_queue, f.command_id)
               THEN <<ResultMsg(DeviceIdStr(connected_clients_sio, client_sid),
                                f)>>
               ELSE <<>>
    IN
    /\ client_sid \in open
    /\ location_history' =
           LocationStep(location_history, connected_clients_sio, client_sid, f)
    /\ connected_clients_sio' =
           ResponseStats(connected_clients_sio, client_sid, f.status)
    /\ command_queue' = IF InQueue(command_queue, f.command_id)
                        THEN Pop(command_queue, f.command_id)
                        ELSE command_queue
    /\ broadcasts' = Counted(broadcasts, out)
    /\ last' = [op |-> "command_response", sid |-> client_sid,
                result |-> None, out |-> out]
    /\ watchers' = MarkAnswered(watchers, f.command_id)
    /\ UNCHANGED <<calls, now, open, closed, responders, registered>>

\* @socketio.on("command_response"), run in one piece
handle_command_response(client_sid, data) ==
    LET f == ResponseFields(data) IN
    /\ client_sid \in open
    /\ location_history' =
           LocationStep(location_history, connected_clients_sio, client_sid, f)
    /\ connected_clients_sio' =
           ResponseStats(connected_clients_sio, client_sid, f.status)
    /\ command_queue' = IF InQueue(command_queue, f.command_id)
                        THEN Pop(command_queue, f.command_id)
                        ELSE command_queue
    /\ broadcasts' = Bump(broadcasts, "command_result", f.command_id)
    /\ last' = [op |-> "command_response", sid |-> client_sid,
                result |-> None,
                out |-> <<ResultMsg(DeviceIdStr(connected_clients_sio,
                                                client_sid), f)>>]
    /\ watchers' = MarkAnswered(watchers, f.command_id)
    /\ UNCHANGED <<calls, now, open, closed, responders, registered>>

\* the command ids the agents can have seen
KnownIds == {watchers[i].command_id : i \in 1..Len(watchers)}

\* command_response payloads: for a dispatched id, or without command_id

ResponseData ==
    {[command |-> "get_location", command_id |-> c, status |-> st,
      payload |-> EmptyDict] : c \in KnownIds, st \in {"success", "failed"}}
    \cup {[status |-> "error"]}

-----------------------------------------------------------------------------
-----------------------------------------------------------------------------
(* The same two code paths step by step.  The server runs in threading     *)
(* mode: every event handler and every timeout monitor is a thread of its  *)
(* own, and a thread switch can fall between any two dict operations.      *)

Step(op, out) == [op |-> op, sid |-> None, result |-> None, out |-> out]

\* handle_command_response up to the statistics update (lines 199-246)
response_begin(client_sid, data) ==
    LET f == ResponseFields(data) IN
    /\ client_sid \in open
    /\ location_history' =
           LocationStep(location_history, connected_clients_sio, client_sid, f)
    /\ connected_clients_sio' =
           ResponseStats(connected_clients_sio, client_sid, f.status)
    /\ responders' = Append(responders,
                            NewResponder(client_sid, data,
                                         DeviceIdStr(connected_clients_sio,
                                                     client_sid),
                                         HasDeviceInfo(connected_clients_sio,
                                                       client_sid)))
    /\ last' = [Step("command_response", <<>>) EXCEPT !.sid = client_sid]
    /\ watchers' = MarkAnswered(watchers, f.command_id)
    /\ UNCHANGED <<calls, command_queue, now, open, closed, broadcasts, registered>>

\* "if command_id and command_id in self.command_queue:" (line 249)
response_test(i) ==
    LET r == responders[i]
        f == ResponseFields(r.data)
    IN
    /\ r.pc = "test"
    /\ responders' = [responders EXCEPT ![i].pc =
                          IF InQueue(command_queue, f.command_id)
                          THEN "pop" ELSE "emit"]
    /\ last' = Step("command_response", <<>>)
    /\ UNCHANGED <<calls, connected_clients_sio, command_queue, location_history, now,
                   open, closed, watchers, broadcasts, registered>>

\* "self.command_queue.pop(command_id)" (line 250): KeyError when the key
\* has gone since the test
response_pop(i) ==
    LET r == responders[i]
        f == ResponseFields(r.data)
    IN
    /\ r.pc = "pop"
    /\ IF f.command_id \in DOMAIN command_queue
       THEN /\ command_queue' = Pop(command_queue, f.command_id)
            /\ responders' = [responders EXCEPT ![i].pc = "emit",
                                                ![i].popped = TRUE]
       ELSE /\ UNCHANGED command_queue
            /\ responders' = [responders EXCEPT ![i].pc = "raised_pop"]
    /\ last' = Step("command_response", <<>>)
    /\ UNCHANGED <<calls, connected_clients_sio, location_history, now, open, closed,
                   watchers, broadcasts, registered>>

\* the command_result broadcast (lines 253-263)
response_emit(i) ==
    LET r == responders[i]
        f == ResponseFields(r.data)
    IN
    /\ r.pc = "emit"
    /\ responders' = [responders EXCEPT ![i].pc = "done"]
    /\ broadcasts' = Bump(broadcasts, "command_result", f.command_id)
    /\ last' = [Step("command_response", <<ResultMsg(r.device_id_str, f)>>)
                    EXCEPT !.sid = r.sid]
    /\ UNCHANGED <<calls, connected_clients_sio, command_queue, location_history, now,
                   open, closed, watchers, registered>>

\* a monitor that gives up a command whose target has left the Registry
monitor_test_target_present(i) ==
    LET w == watchers[i] IN
    /\ w.pc = "wait"
    /\ WaitOver(w)
    /\ watchers' = [watchers EXCEPT ![i].pc =
                        IF /\ w.command_id \in DOMAIN command_queue
                           /\ w.target \in DOMAIN connected_clients_sio
                        THEN "pop" ELSE "done"]
    /\ last' = Step("monitor_timeout", <<>>)
    /\ UNCHANGED <<calls, connected_clients_sio, command_queue, location_history, now,
                   open, closed, responders, broadcasts, registered>>

\* "if command_id in self.command_queue:" after the wait (lines 399-402)
monitor_test(i) ==
    LET w == watchers[i] IN
    /\ w.pc = "wait"
    /\ WaitOver(w)
    /\ watchers' = [watchers EXCEPT ![i].pc =
                        IF w.command_id \in DOMAIN command_queue
                        THEN "pop" ELSE "done"]
    /\ last' = Step("monitor_timeout", <<>>)
    /\ UNCHANGED <<calls, connected_clients_sio, command_queue, location_history, now,
                   open, closed, responders, broadcasts, registered>>

\* a monitor that pops with a default and reports the timeout all the same
monitor_pop_default(i) ==
    LET w == watchers[i] IN
    /\ w.pc = "pop"
    /\ command_queue' = ExpireQueue(command_queue, w.command_id)
    /\ watchers' = [watchers EXCEPT
                        ![i].pc = IF w.command_id \in DOMAIN command_queue
                                  THEN "stats_test" ELSE "emit",
                        ![i].command_info =
                            Get(command_queue, w.command_id, EmptyDict)]
    /\ last' = Step("monitor_timeout", <<>>)
    /\ UNCHANGED <<calls, connected_clients_sio, location_history, now, open, closed,
                   responders, broadcasts, registered>>

\* "command_info = self.command_queue.pop(command_id)" (line 403)
monitor_pop(i) ==
    LET w == watchers[i] IN
    /\ w.pc = "pop"
    /\ IF w.command_id \in DOMAIN command_queue
       THEN /\ command_queue' = Pop(command_queue, w.command_id)
            /\ watchers' = [watchers EXCEPT
                                ![i].pc = "stats_test",
                                ![i].command_info = command_queue[w.command_id]]
       ELSE /\ UNCHANGED command_queue
            /\ watchers' = [watchers EXCEPT ![i].pc = "raised_pop"]
    /\ last' = Step("monitor_timeout", <<>>)
    /\ UNCHANGED <<calls, connected_clients_sio, location_history, now, open, closed,
                   responders, broadcasts, registered>>

\* the counter a response's status increments, None when it increments none
StatsCounter(status) ==
    IF status = "success" THEN "commands_succeeded"
    ELSE IF status \in {"error", "failed"} THEN "commands_failed"
    ELSE None

\* handle_command_response up to the location step (lines 199-235)
response_arrive(client_sid, data) ==
    LET f == ResponseFields(data) IN
    /\ client_sid \in open
    /\ location_history' =
           LocationStep(location_history, connected_clients_sio, client_sid, f)
    /\ responders' =
           Append(responders,
                  [NewResponder(client_sid, data,
                                DeviceIdStr(connected_clients_sio, client_sid),
                                HasDeviceInfo(connected_clients_sio, client_sid))
                       EXCEPT !.pc = "stats_read"])
    /\ watchers' = MarkAnswered(watchers, f.command_id)
    /\ last' = [Step("command_response", <<>>) EXCEPT !.sid = client_sid]
    /\ UNCHANGED <<calls, connected_clients_sio, command_queue, now, open, closed,
                   broadcasts, registered>>

\* "device_info.get("commands_...", 0) + 1" (lines 238-245): the read
response_stats_read(i) ==
    LET r == responders[i]
        counter == StatsCounter(ResponseFields(r.data).status)
    IN
    /\ r.pc = "stats_read"
    /\ responders' =
           IF r.device_info /\ counter # None
           THEN [responders EXCEPT
                    ![i].pc = "stats_write",
                    ![i].read = <<Get(connected_clients_sio[r.sid], counter, 0)>>]
           ELSE [responders EXCEPT ![i].pc = "test"]
    /\ last' = Step("command_response", <<>>)
    /\ UNCHANGED <<calls, connected_clients_sio, command_queue, location_history, now,
                   open, closed, watchers, broadcasts, registered>>

\* "device_info["commands_..."] = ..." (lines 240, 244): the write
response_stats_write(i) ==
    LET r == responders[i]
        counter == StatsCounter(ResponseFields(r.data).status)
    IN
    /\ r.pc = "stats_write"
    /\ connected_clients_sio' =
           Put(connected_clients_sio, r.sid,
               Put(connected_clients_sio[r.sid], counter, r.read[1] + 1))
    /\ responders' = [responders EXCEPT ![i].pc = "test"]
    /\ last' = Step("command_response", <<>>)
    /\ UNCHANGED <<calls, command_queue, location_history, now, open, closed, watchers,
                   broadcasts, registered>>

\* "client_info.get("commands_failed", 0) + 1" (lines 414-416): the read
monitor_stats_read(i) ==
    LET w == watchers[i]
        target_sid == w.command_info["target_sid"]
    IN
    /\ w.pc = "stats"
    /\ watchers' =
           IF target_sid \in DOMAIN connected_clients_sio
           THEN [watchers EXCEPT
                    ![i].pc = "stats_write",
                    ![i].client_info =
                        <<Get(connected_clients_sio[target_sid],
                              "commands_failed", 0)>>]
           ELSE [watchers EXCEPT ![i].pc = "raised_stats"]
    /\ last' = Step("monitor_timeout", <<>>)
    /\ UNCHANGED <<calls, connected_clients_sio, command_queue, location_history, now,
                   open, closed, responders, broadcasts, registered>>

\* "client_info["commands_failed"] = ..." (line 415): the write
monitor_stats_write(i) ==
    LET w == watchers[i]
        target_sid == w.command_info["target_sid"]
    IN
    /\ w.pc = "stats_write"
    /\ connected_clients_sio' =
           Put(connected_clients_sio, target_sid,
               Put(connected_clients_sio[target_sid], "commands_failed",
                   w.client_info[1] + 1))
    /\ watchers' = [watchers EXCEPT ![i].pc = "emit"]
    /\ last' = Step("monitor_timeout", <<>>)
    /\ UNCHANGED <<calls, command_queue, location_history, now, open, closed,
                   responders, broadcasts, registered>>

\* "if target_sid in self.connected_clients_sio:" (line 413)
monitor_stats_test(i) ==
    LET w == watchers[i] IN
    /\ w.pc = "stats_test"
    /\ watchers' = [watchers EXCEPT ![i].pc =
                        IF w.command_info["target_sid"]
                               \in DOMAIN connected_clients_sio
                        THEN "stats" ELSE "emit"]
    /\ last' = Step("monitor_timeout", <<>>)
    /\ UNCHANGED <<calls, connected_clients_sio, command_queue, location_history, now,
                   open, closed, responders, broadcasts, registered>>

\* "client_info = self.connected_clients_sio[target_sid]" and the increment
\* (lines 414-417): KeyError when the session has gone since the test
monitor_stats(i) ==
    LET w == watchers[i]
        target_sid == w.command_info["target_sid"]
    IN
    /\ w.pc = "stats"
    /\ IF target_sid \in DOMAIN connected_clients_sio
       THEN /\ connected_clients_sio' =
                   TimeoutStats(connected_clients_sio, target_sid)
            /\ watchers' = [watchers EXCEPT ![i].pc = "emit"]
       ELSE /\ UNCHANGED connected_clients_sio
            /\ watchers' = [watchers EXCEPT ![i].pc = "raised_stats"]
    /\ last' = Step("monitor_timeout", <<>>)
    /\ UNCHANGED <<calls, command_queue, location_history, now, open, closed,
                   responders, broadcasts, registered>>

\* the command_timeout broadcast (lines 420-429)
monitor_emit(i) ==
    LET w == watchers[i] IN
    /\ w.pc = "emit"
    /\ watchers' = [watchers EXCEPT ![i].pc = "done"]
    /\ broadcasts' = Bump(broadcasts, "command_timeout", w.command_id)
    /\ last' = Step("monitor_timeout",
                    <<Msg("command_timeout", Broadcast, w.command_id)>>)
    /\ UNCHANGED <<calls, connected_clients_sio, command_queue, location_history, now,
                   open, closed, responders, registered>>

-----------------------------------------------------------------------------
(* Status aggregation.                                                     *)

\* a classification whose comparisons include the limits
StatusOfInclusive(time_since_last_seen) ==
    IF time_since_last_seen <= ActiveLimit THEN "active"
    ELSE IF time_since_last_seen <= IdleLimit THEN "idle"
    ELSE "stale"

\* the status get_active_clients derives from the seconds since last_seen
StatusOf(time_since_last_seen) ==
    IF time_since_last_seen < ActiveLimit THEN "active"
    ELSE IF time_since_last_seen < IdleLimit THEN "idle"
    ELSE "stale"

\* (current_time - fromisoformat(client["last_seen"])).total_seconds()
TimeSince(current_time, client) ==
    current_time - fromisoformat(client["last_seen"])

\* an entry whose commands_sent is copied from the wrong counter
ActiveEntryMiscopied(sid, client, current_time) ==
    [sid |-> sid,
     id |-> client["id"],
     name |-> client["name_display"],
     platform |-> Get(client, "platform", "Unknown"),
     ip |-> Get(client, "ip", "Unknown"),
     connected_at |-> client["connected_at"],
     last_seen |-> client["last_seen"],
     status |-> StatusOf(current_time - fromisoformat(client["last_seen"])),
     time_since_last_seen |-> current_time - fromisoformat(client["last_seen"]),
     commands_sent |-> Get(client, "commands_succeeded", 0),
     commands_succeeded |-> Get(client, "commands_succeeded", 0),
     commands_failed |-> Get(client, "commands_failed", 0),
     battery |-> Get(client, "battery", None),
     network |-> Get(client, "network", None)]

\* the entry get_active_clients appends for one client; on a clock of whole
\* seconds int(time_since_last_seen) is the elapsed time itself (TickEntry
\* below has the readings between two seconds)
ActiveEntry(sid, client, current_time) ==
    [sid |-> sid,
     id |-> client["id"],
     name |-> client["name_display"],
     platform |-> Get(client, "platform", "Unknown"),
     ip |-> Get(client, "ip", "Unknown"),
     connected_at |-> client["connected_at"],
     last_seen |-> client["last_seen"],
     status |-> StatusOf(TimeSince(current_time, client)),
     time_since_last_seen |-> TimeSince(current_time, client),
     commands_sent |-> Get(client, "commands_sent", 0),
     commands_succeeded |-> Get(client, "commands_succeeded", 0),
     commands_failed |-> Get(client, "commands_failed", 0),
     battery |-> Get(client, "battery", None),
     network |-> Get(client, "network", None)]

\* the sort key: (0 active, 1 idle, 2 stale; time_since_last_seen)
StatusRank(status) ==
    IF status = "active" THEN 0 ELSE IF status = "idle" THEN 1 ELSE 2

KeyLeq(a, b) ==
    \/ StatusRank(a.status) < StatusRank(b.status)
    \/ /\ StatusRank(a.status) = StatusRank(b.status)
       /\ a.time_since_last_seen <= b.time_since_last_seen

\* the lists list.sort can return: every entry once, keys ascending (entries
\* with equal keys keep the dict's iteration order, which is not modelled)
SortedLists(entries) ==
    {l \in [1..Cardinality(entries) -> entries] :
        /\ \A i, j \in DOMAIN l : i # j => l[i] # l[j]
        /\ \A i, j \in DOMAIN l : i < j => KeyLeq(l[i], l[j])}

\* a status read that also refreshes last_seen of every session it lists
get_active_clients_refreshing ==
    LET current_time == now
        entries == {ActiveEntry(sid, connected_clients_sio[sid], current_time) :
                        sid \in DOMAIN connected_clients_sio}
    IN
    /\ connected_clients_sio' =
           [sid \in DOMAIN connected_clients_sio |->
               Put(Put(connected_clients_sio[sid], "status",
                       StatusOf(TimeSince(current_time,
                                          connected_clients_sio[sid]))),
                   "last_seen", isoformat(current_time))]
    /\ \E active_clients \in SortedLists(entries) :
           last' = [op |-> "get_active_clients", sid |-> None,
                    result |-> active_clients, out |-> <<>>]
    /\ UNCHANGED <<calls, command_queue, location_history, now, open, closed, watchers,
                   responders, broadcasts, registered>>

get_active_clients ==
    LET current_time == now
        entries == {ActiveEntry(sid, connected_clients_sio[sid], current_time) :
                        sid \in DOMAIN connected_clients_sio}
    IN
    /\ connected_clients_sio' =
           [sid \in DOMAIN connected_clients_sio |->
               Put(connected_clients_sio[sid], "status",
                   StatusOf(TimeSince(current_time, connected_clients_sio[sid])))]
    /\ \E active_clients \in SortedLists(entries) :
           last' = [op |-> "get_active_clients", sid |-> None,
                    result |-> active_clients, out |-> <<>>]
    /\ UNCHANGED <<calls, command_queue, location_history, now, open, closed, watchers,
                   responders, broadcasts, registered>>

-----------------------------------------------------------------------------
(* send_command_to_client statement by statement, for targets that stay    *)
(* registered: client_info is then the record the Registry holds.          *)

\* lines 319-331: the arguments' defaults, the membership test, the read of
\* client_info and the command_id from the clock; the else branch returns
\* at once (lines 384-388)
dispatch_begin(target_sid, command_name, args, timeout_arg) ==
    /\ calls' = Append(calls,
                       [op |-> "dispatch", target_sid |-> target_sid,
                        command_name |-> command_name, args |-> args,
                        timeout |-> EffectiveTimeout(timeout_arg),
                        command_id |-> CommandId(command_name, now),
                        pc |-> IF target_sid \in DOMAIN connected_clients_sio
                               THEN "insert" ELSE "returned",
                        result |-> IF target_sid \in DOMAIN connected_clients_sio
                                   THEN [status |-> "running",
                                         command_id |-> NoCommandId]
                                   ELSE [status |-> "error",
                                         command_id |-> NoCommandId]])
    /\ last' = [Step("send_command", <<>>) EXCEPT !.sid = target_sid]
    /\ UNCHANGED <<connected_clients_sio, command_queue, location_history, now,
                   open, closed, watchers, responders, broadcasts, registered>>

\* "self.command_queue[command_id] = {...}" (lines 334-342)
dispatch_insert(i) ==
    LET c == calls[i] IN
    /\ c.op = "dispatch"
    /\ c.pc = "insert"
    /\ command_queue' =
           Put(command_queue, c.command_id,
               NewCommand(c.command_name, c.args, c.target_sid,
                          connected_clients_sio[c.target_sid], c.timeout))
    /\ calls' = [calls EXCEPT ![i].pc = "stats"]
    /\ last' = [Step("send_command", <<>>) EXCEPT !.sid = c.target_sid]
    /\ UNCHANGED <<connected_clients_sio, location_history, now, open, closed,
                   watchers, responders, broadcasts, registered>>

\* "client_info["commands_sent"] = ..." (line 345)
dispatch_stats(i) ==
    LET c == calls[i] IN
    /\ c.op = "dispatch"
    /\ c.pc = "stats"
    /\ connected_clients_sio' = SentStats(connected_clients_sio, c.target_sid)
    /\ calls' = [calls EXCEPT ![i].pc = "emit"]
    /\ last' = [Step("send_command", <<>>) EXCEPT !.sid = c.target_sid]
    /\ UNCHANGED <<command_queue, location_history, now, open, closed,
                   watchers, responders, broadcasts, registered>>

\* "self.socketio.emit("command", command_payload, to=target_sid)" (line 359)
dispatch_emit(i) ==
    LET c == calls[i] IN
    /\ c.op = "dispatch"
    /\ c.pc = "emit"
    /\ calls' = [calls EXCEPT ![i].pc = "thread"]
    /\ last' = [Step("send_command",
                     <<Msg("command", c.target_sid, c.command_id)>>)
                    EXCEPT !.sid = c.target_sid]
    /\ UNCHANGED <<connected_clients_sio, command_queue, location_history, now,
                   open, closed, watchers, responders, broadcasts, registered>>

\* "threading.Thread(target=self._monitor_command_timeout, ...).start()"
\* (lines 362-366)
dispatch_thread(i) ==
    LET c == calls[i] IN
    /\ c.op = "dispatch"
    /\ c.pc = "thread"
    /\ watchers' = Append(watchers,
                          NewWatcher(c.command_id, c.timeout, c.target_sid))
    /\ calls' = [calls EXCEPT ![i].pc = "sent"]
    /\ last' = [Step("send_command", <<>>) EXCEPT !.sid = c.target_sid]
    /\ UNCHANGED <<connected_clients_sio, command_queue, location_history, now,
                   open, closed, responders, broadcasts, registered>>

\* the command_sent broadcast and the return (lines 369-383)
dispatch_sent(i) ==
    LET c == calls[i]
        out == <<Msg("command_sent", Broadcast, c.command_id)>>
    IN
    /\ c.op = "dispatch"
    /\ c.pc = "sent"
    /\ broadcasts' = Counted(broadcasts, out)
    /\ calls' = [calls EXCEPT
                    ![i].pc = "returned",
                    ![i].result = [status |-> "sent",
                                   command_id |-> c.command_id]]
    /\ last' = [op |-> "send_command", sid |-> c.target_sid,
                result |-> [status |-> "sent", command_id |-> c.command_id],
                out |-> out]
    /\ UNCHANGED <<connected_clients_sio, command_queue, location_history, now,
                   open, closed, watchers, responders, registered>>

\* the command ids agents have been sent
EmittedIds ==
    {calls[i].command_id :
        i \in {j \in 1..Len(calls) :
                  calls[j].op = "dispatch"
                      /\ calls[j].pc \in {"thread", "sent", "returned"}
                      /\ calls[j].result.status # "error"}}

\* the agents' answers to the commands they have been sent
EmittedResponses ==
    {[command |-> "get_location", command_id |-> c, status |-> "success",
      payload |-> EmptyDict] : c \in EmittedIds}

-----------------------------------------------------------------------------
(* The session handlers as threads: each one changes the Registry first    *)
(* and broadcasts afterwards, and another handler can run in between.      *)

\* one more broadcast about a session counted into the broadcast history
SessionBroadcast(event, sid) == Bump(broadcasts, event, sid)

\* handle_register_device up to registration_successful (lines 77-122)
register_begin(client_sid, data) ==
    /\ client_sid \in open
    /\ registered' = [registered EXCEPT ![client_sid] = @ \/ HasDeviceId(data)]
    /\ connected_clients_sio' =
           RegisterClients(connected_clients_sio, client_sid, data)
    /\ responders' =
           Append(responders,
                  [op |-> "register_device", sid |-> client_sid, data |-> data,
                   pc |-> IF RegistrationRefused(data)
                          THEN "done" ELSE "broadcast"])
    /\ last' = [op |-> "register_device", sid |-> client_sid,
                result |-> IF RegistrationRefused(data)
                           THEN "failed" ELSE "registered",
                out |-> <<Head(RegisterOut(client_sid, data))>>]
    /\ UNCHANGED <<calls, command_queue, location_history, now, open, closed,
                   watchers, broadcasts>>

\* the client_connected broadcast (lines 125-133)
register_broadcast(i) ==
    LET r == responders[i] IN
    /\ r.op = "register_device"
    /\ r.pc = "broadcast"
    /\ responders' = [responders EXCEPT ![i].pc = "done"]
    /\ broadcasts' = SessionBroadcast("client_connected", r.sid)
    /\ last' = [Step("register_device",
                     <<RegisterOut(r.sid, r.data)[2]>>) EXCEPT !.sid = r.sid]
    /\ UNCHANGED <<calls, connected_clients_sio, command_queue,
                   location_history, now, open, closed, watchers, registered>>

\* handle_device_heartbeat up to heartbeat_ack (lines 148-175), or its else
\* branch (lines 191-195)
heartbeat_begin(client_sid, data) ==
    /\ client_sid \in open
    /\ connected_clients_sio' =
           HeartbeatClients(connected_clients_sio, client_sid, data)
    /\ responders' =
           Append(responders,
                  [op |-> "device_heartbeat", sid |-> client_sid,
                   data |-> data, msg |-> <<>>,
                   pc |-> IF client_sid \in DOMAIN connected_clients_sio
                          THEN "args" ELSE "done"])
    /\ last' = [op |-> "device_heartbeat", sid |-> client_sid,
                result |-> None,
                out |-> <<Head(HeartbeatOut(connected_clients_sio, client_sid,
                                            data))>>]
    /\ UNCHANGED <<calls, command_queue, location_history, now, open, closed,
                   watchers, broadcasts, registered>>

\* the dict handed to the client_status_update emit (lines 180-189):
\* "self.connected_clients_sio[client_sid]["id"]" raises KeyError when the
\* session has gone
heartbeat_args(i) ==
    LET r == responders[i] IN
    /\ r.op = "device_heartbeat"
    /\ r.pc = "args"
    /\ responders' =
           IF r.sid \in DOMAIN connected_clients_sio
           THEN [responders EXCEPT
                    ![i].pc = "emit",
                    ![i].msg =
                        <<[event |-> "client_status_update",
                           room |-> Broadcast,
                           key |-> connected_clients_sio[r.sid]["id"],
                           last_seen |->
                               connected_clients_sio[r.sid]["last_seen"],
                           status |-> Get(connected_clients_sio[r.sid],
                                          "status", "active")]>>]
           ELSE [responders EXCEPT ![i].pc = "raised"]
    /\ last' = [Step("device_heartbeat", <<>>) EXCEPT !.sid = r.sid]
    /\ UNCHANGED <<calls, connected_clients_sio, command_queue,
                   location_history, now, open, closed, watchers, broadcasts,
                   registered>>

\* "self.socketio.emit("client_status_update", ...)" (line 178)
heartbeat_emit(i) ==
    LET r == responders[i] IN
    /\ r.op = "device_heartbeat"
    /\ r.pc = "emit"
    /\ responders' = [responders EXCEPT ![i].pc = "done"]
    /\ broadcasts' = SessionBroadcast("client_status_update", r.sid)
    /\ last' = [Step("device_heartbeat", r.msg) EXCEPT !.sid = r.sid]
    /\ UNCHANGED <<calls, connected_clients_sio, command_queue,
                   location_history, now, open, closed, watchers, registered>>

\* handle_sio_disconnect up to the pop (lines 58-60), or its else branch
\* (lines 70-73)
disconnect_pop(client_sid) ==
    /\ client_sid \in open
    /\ open' = open \ {client_sid}
    /\ closed' = closed \cup {client_sid}
    /\ registered' = [registered EXCEPT ![client_sid] = FALSE]
    /\ connected_clients_sio' = DisconnectClients(connected_clients_sio, client_sid)
    /\ responders' =
           Append(responders,
                  [op |-> "disconnect", sid |-> client_sid,
                   out |-> DisconnectOut(connected_clients_sio, client_sid),
                   pc |-> IF client_sid \in DOMAIN connected_clients_sio
                          THEN "emit" ELSE "done"])
    /\ last' = [Step("disconnect", <<>>) EXCEPT !.sid = client_sid]
    /\ UNCHANGED <<calls, command_queue, location_history, now, watchers,
                   broadcasts>>

\* the client_disconnected broadcast (lines 61-69)
disconnect_emit(i) ==
    LET r == responders[i] IN
    /\ r.op = "disconnect"
    /\ r.pc = "emit"
    /\ responders' = [responders EXCEPT ![i].pc = "done"]
    /\ broadcasts' = SessionBroadcast("client_disconnected", r.sid)
    /\ last' = [Step("disconnect", r.out) EXCEPT !.sid = r.sid]
    /\ UNCHANGED <<calls, connected_clients_sio, command_queue,
                   location_history, now, open, closed, watchers, registered>>

-----------------------------------------------------------------------------
(* Status aggregation with clock readings finer than a second.             *)
(* datetime.now() has microsecond resolution while the entry's             *)
(* time_since_last_seen is int(total_seconds()).  Here the clock counts    *)
(* ticks of 1/Resolution second, so that int() is not the identity.        *)

\* int(x) for x = ticks / Resolution seconds: truncation towards zero
int_seconds(ticks) ==
    IF ticks >= 0 THEN ticks \div Resolution
    ELSE -((-ticks) \div Resolution)

\* lines 450-455 on the untruncated total_seconds()
StatusOfTicks(ticks) ==
    IF ticks < ActiveLimit * Resolution THEN "active"
    ELSE IF ticks < IdleLimit * Resolution THEN "idle"
    ELSE "stale"

\* the entry appended for one client (lines 460-478)
TickEntry(sid, client, current_time) ==
    [ActiveEntry(sid, client, current_time) EXCEPT
        !.status = StatusOfTicks(TimeSince(current_time, client)),
        !.time_since_last_seen = int_seconds(TimeSince(current_time, client))]

\* the sort key of lines 484-487, compared as Python compares tuples
SortKeyLess(a, b) ==
    \/ StatusRank(a.status) < StatusRank(b.status)
    \/ /\ StatusRank(a.status) = StatusRank(b.status)
       /\ a.time_since_last_seen < b.time_since_last_seen

\* list.sort is stable: an entry goes behind every entry whose key is not
\* greater than its own
RECURSIVE InsertStable(_, _)
InsertStable(sorted, e) ==
    IF sorted = <<>> THEN <<e>>
    ELSE IF SortKeyLess(e, Head(sorted)) THEN <<e>> \o sorted
    ELSE <<Head(sorted)>> \o InsertStable(Tail(sorted), e)

RECURSIVE StableSort(_)
StableSort(list) ==
    IF list = <<>> THEN <<>>
    ELSE InsertStable(StableSort(SubSeq(list, 1, Len(list) - 1)),
                      list[Len(list)])

\* the orders in which .items() can yield the sessions: a dict iterates in
\* insertion order, and while no session registers twice the insertion
\* order is the order of connected_at (sessions stored at the same clock
\* reading in either order)
IterationOrders(clients) ==
    {o \in [1..Cardinality(DOMAIN clients) -> DOMAIN clients] :
        /\ \A i, j \in DOMAIN o : i # j => o[i] # o[j]
        /\ \A i, j \in DOMAIN o :
              i < j => fromisoformat(clients[o[i]]["connected_at"])
                           <= fromisoformat(clients[o[j]]["connected_at"])}

\* get_active_clients (lines 431-490) on the finer clock
get_active_clients_ticks ==
    LET current_time == now IN
    /\ connected_clients_sio' =
           [sid \in DOMAIN connected_clients_sio |->
               Put(connected_clients_sio[sid], "status",
                   StatusOfTicks(TimeSince(current_time,
                                           connected_clients_sio[sid])))]
    /\ \E o \in IterationOrders(connected_clients_sio) :
           last' = [op |-> "get_active_clients", sid |-> None,
                    result |-> StableSort(
                        [i \in DOMAIN o |->
                            TickEntry(o[i], connected_clients_sio[o[i]],
                                      current_time)]),
                    out |-> <<>>]
    /\ UNCHANGED <<calls, command_queue, location_history, now, open, closed,
                   watchers, responders, broadcasts, registered>>

-----------------------------------------------------------------------------
(* The operator-side calls step by step: they run on the GUI thread or on  *)
(* an HTTP request thread while the event handlers run on theirs.          *)

\* send_command_to_client up to "if target_sid in self.connected_clients_sio"
\* (lines 319-325); the else branch returns at once (lines 384-388)
dispatch_call(target_sid, command_name, args, timeout_arg) ==
    /\ calls' = Append(calls,
                       [op |-> "send_command", target_sid |-> target_sid,
                        command_name |-> command_name, args |-> args,
                        timeout |-> EffectiveTimeout(timeout_arg),
                        pc |-> IF target_sid \in DOMAIN connected_clients_sio
                               THEN "read" ELSE "returned",
                        result |-> DispatchResult(connected_clients_sio,
                                                  target_sid, command_name)])
    /\ last' = [Step("send_command", <<>>) EXCEPT !.sid = target_sid]
    /\ UNCHANGED <<connected_clients_sio, command_queue, location_history, now,
                   open, closed, watchers, responders, broadcasts, registered>>

\* "client_info = self.connected_clients_sio[target_sid]" (line 326):
\* KeyError when the session has gone since the test; otherwise the rest of
\* the dispatch (lines 329-383) in one piece
dispatch_read(i) ==
    LET c == calls[i] IN
    /\ c.op = "send_command"
    /\ c.pc = "read"
    /\ IF c.target_sid \in DOMAIN connected_clients_sio
       THEN /\ command_queue' =
                   DispatchQueue(command_queue, connected_clients_sio,
                                 c.target_sid, c.command_name, c.args, c.timeout)
            /\ connected_clients_sio' =
                   DispatchClients(connected_clients_sio, c.target_sid)
            /\ watchers' = DispatchWatchers(watchers, connected_clients_sio,
                                            c.target_sid, c.command_name,
                                            c.timeout)
            /\ broadcasts' =
                   Counted(broadcasts, DispatchOut(connected_clients_sio,
                                                   c.target_sid, c.command_name))
            /\ calls' = [calls EXCEPT
                            ![i].pc = "returned",
                            ![i].result =
                                DispatchResult(connected_clients_sio,
                                               c.target_sid, c.command_name)]
            /\ last' = [op |-> "send_command", sid |-> c.target_sid,
                        result |-> DispatchResult(connected_clients_sio,
                                                  c.target_sid, c.command_name),
                        out |-> DispatchOut(connected_clients_sio, c.target_sid,
                                            c.command_name)]
       ELSE /\ calls' = [calls EXCEPT ![i].pc = "raised"]
            /\ last' = [Step("send_command", <<>>) EXCEPT !.sid = c.target_sid]
            /\ UNCHANGED <<command_queue, connected_clients_sio, watchers,
                           broadcasts>>
    /\ UNCHANGED <<location_history, now, open, closed, responders, registered>>

\* get_active_clients up to the creation of the dict iterator (lines 438-441)
active_clients_call ==
    /\ calls' = Append(calls,
                       [op |-> "get_active_clients", current_time |-> now,
                        size |-> Cardinality(DOMAIN connected_clients_sio),
                        visited |-> {}, sid |-> None, last_seen |-> isoformat(now),
                        client |-> EmptyDict, active_clients |-> {},
                        pc |-> "next", result |-> <<>>])
    /\ last' = Step("get_active_clients", <<>>)
    /\ UNCHANGED <<connected_clients_sio, command_queue, location_history, now,
                   open, closed, watchers, responders, broadcasts, registered>>

\* one step of "for sid, client in self.connected_clients_sio.items()" (line
\* 441) with the read of client["last_seen"] (line 444): the iterator raises
\* RuntimeError when the dict has changed size since the iterator was made;
\* when nothing is left the list is sorted and returned (lines 483-490)
active_clients_next(i) ==
    LET c == calls[i]
        left == DOMAIN connected_clients_sio \ c.visited
    IN
    /\ c.op = "get_active_clients"
    /\ c.pc = "next"
    /\ IF Cardinality(DOMAIN connected_clients_sio) # c.size
       THEN calls' = [calls EXCEPT ![i].pc = "raised"]
       ELSE IF left = {}
       THEN \E active_clients \in SortedLists(c.active_clients) :
                calls' = [calls EXCEPT ![i].pc = "returned",
                                       ![i].result = active_clients]
       ELSE \E sid \in left :
                calls' = [calls EXCEPT
                             ![i].pc = "body",
                             ![i].sid = sid,
                             ![i].visited = @ \cup {sid},
                             ![i].client = connected_clients_sio[sid],
                             ![i].last_seen =
                                 connected_clients_sio[sid]["last_seen"]]
    /\ last' = Step("get_active_clients", <<>>)
    /\ UNCHANGED <<connected_clients_sio, command_queue, location_history, now,
                   open, closed, watchers, responders, broadcasts, registered>>

\* the loop body (lines 447-478): the status from the last_seen read before,
\* the write of client["status"], and the entry built from the record as it
\* is now (the record the loop holds, when the session has gone meanwhile)
active_clients_body(i) ==
    LET c == calls[i]
        client == IF c.sid \in DOMAIN connected_clients_sio
                  THEN connected_clients_sio[c.sid] ELSE c.client
        time_since_last_seen == c.current_time - fromisoformat(c.last_seen)
        status == StatusOf(time_since_last_seen)
        entry == [ActiveEntry(c.sid, client, c.current_time) EXCEPT
                     !.status = status,
                     !.time_since_last_seen = time_since_last_seen]
    IN
    /\ c.op = "get_active_clients"
    /\ c.pc = "body"
    /\ connected_clients_sio' =
           IF c.sid \in DOMAIN connected_clients_sio
           THEN Put(connected_clients_sio, c.sid,
                    Put(connected_clients_sio[c.sid], "status", status))
           ELSE connected_clients_sio
    /\ calls' = [calls EXCEPT ![i].pc = "next",
                              ![i].active_clients = @ \cup {entry}]
    /\ last' = Step("get_active_clients", <<>>)
    /\ UNCHANGED <<command_queue, location_history, now, open, closed, watchers,
                   responders, broadcasts, registered>>

-----------------------------------------------------------------------------
\* an event of the environment (an agent, the operator, the clock), counted
Env(A) == events < MaxEvents /\ A /\ events' = events + 1

\* a step of a thread the server started itself
Own(A) == A /\ UNCHANGED events

Next ==
    \/ Env(Tick(1))
    \/ Env(\E s \in SIDs : handle_sio_connect(s))
    \/ Env(\E s \in SIDs : handle_sio_disconnect(s))
    \/ Env(\E s \in SIDs, data \in LeanRegister : handle_register_device(s, data))
    \/ Env(\E s \in SIDs, data \in LeanHeartbeat : handle_device_heartbeat(s, data))
    \/ Env(\E s \in SIDs, c \in {"get_location"}, t \in {NoTimeout, <<0>>} :
              send_command_to_client(s, c, EmptyDict, t))
    \/ Env(\E s \in SIDs, data \in ResponseData : handle_command_response(s, data))
    \/ Env(get_active_clients)
    \/ Own(\E i \in 1..Len(watchers) : monitor_command_timeout(i))

Spec == Init /\ [][Next]_vars

\* The clock readings around the two status limits.
StatusClock ==
    {0} \cup {ActiveLimit + d : d \in -Margin..Margin}
        \cup {IdleLimit + d : d \in -Margin..Margin}

\* Sessions, heartbeats and status reads while the clock moves across the
\* status limits.
NextStatus ==
    \/ Env(\E t \in StatusClock : Tick(t - now))
    \/ Env(\E s \in SIDs : handle_sio_connect(s))
    \/ Env(\E s \in SIDs : handle_sio_disconnect(s))
    \/ Env(\E s \in SIDs, data \in RegisterPayloads :
              handle_register_device(s, data))
    \/ Env(\E s \in SIDs, data \in HeartbeatPayloads :
              handle_device_heartbeat(s, data))
    \/ Env(get_active_clients)

SpecStatus == Init /\ [][NextStatus]_vars

\* The steps of the response handlers and of the timeout monitors.
ResponderStep ==
    \E i \in 1..Len(responders) :
        response_test(i) \/ response_pop(i) \/ response_emit(i)

MonitorStep ==
    \E i \in 1..Len(watchers) :
        \/ monitor_test(i)
        \/ monitor_pop(i)
        \/ monitor_stats_test(i)
        \/ monitor_stats(i)
        \/ monitor_emit(i)

\* Events while the response handlers and the timeout monitors run as
\* threads; every monitor's wait is over at once (timeout 0).
RaceEnv(A) == events < MaxRaceEvents /\ A /\ events' = events + 1

NextRace ==
    \/ RaceEnv(Tick(1))
    \/ RaceEnv(\E s \in SIDs : handle_sio_connect(s))
    \/ RaceEnv(\E s \in SIDs : handle_sio_disconnect(s))
    \/ RaceEnv(\E s \in SIDs, data \in LeanRegister :
                  handle_register_device(s, data))
    \/ RaceEnv(\E s \in SIDs, c \in {"get_location"} :
                  send_command_to_client(s, c, EmptyDict, <<0>>))
    \/ RaceEnv(\E s \in SIDs, data \in ResponseData : response_begin(s, data))
    \/ Own(\E i \in 1..Len(responders) : response_test(i))
    \/ Own(\E i \in 1..Len(responders) : response_pop(i))
    \/ Own(\E i \in 1..Len(responders) : response_emit(i))
    \/ Own(\E i \in 1..Len(watchers) : monitor_test(i))
    \/ Own(\E i \in 1..Len(watchers) : monitor_pop(i))
    \/ Own(\E i \in 1..Len(watchers) : monitor_stats_test(i))
    \/ Own(\E i \in 1..Len(watchers) : monitor_stats(i))
    \/ Own(\E i \in 1..Len(watchers) : monitor_emit(i))

SpecRace == Init /\ [][NextRace]_vars

\* Every started thread keeps being scheduled.
SpecRaceFair ==
    SpecRace /\ WF_vars(Own(ResponderStep)) /\ WF_vars(Own(MonitorStep))

\* command_response payloads of a location report: both coordinates, one
\* coordinate, none
LocationPayloads ==
    { [latitude |-> "1.0", longitude |-> "2.0"],
      [latitude |-> "1.0"],
      [accuracy |-> "5"] }

\* responses that echo the dispatched name "get_location" (app.py line 594)
\* or carry the name the handler tests for, with and without a command_id
LocationResponses ==
    {[command |-> c, status |-> st, payload |-> p] :
        c \in {"get_location", "command_get_location"},
        st \in {"success", "failed"}, p \in LocationPayloads}
    \cup {[command |-> c, command_id |-> id, status |-> st, payload |-> p] :
             c \in {"get_location", "command_get_location"}, id \in KnownIds,
             st \in {"success", "failed"}, p \in LocationPayloads}

\* a payload that is a string instead of a dict
NotAMap == "not-a-map"

\* responses whose payload is not a dict
MalformedResponses ==
    {[command |-> "get_location", command_id |-> id, status |-> st,
      payload |-> NotAMap] : id \in KnownIds, st \in {"success", "failed"}}

\* @socketio.on("command_response") for event data that is not a dict (a
\* string, a list, None): 'data.get("command", ...)' at line 206 raises
\* AttributeError, nothing catches it
handle_command_response_not_a_map(client_sid) ==
    /\ client_sid \in open
    /\ last' = [op |-> "command_response", sid |-> client_sid,
                result |-> "AttributeError", out |-> <<>>]
    /\ UNCHANGED <<calls, connected_clients_sio, command_queue, location_history,
                   now, open, closed, watchers, responders, broadcasts,
                   registered>>

\* Sessions, dispatches of get_location, location reports and malformed
\* responses.
LocationEnv(A) == events < MaxLocationEvents /\ A /\ events' = events + 1

NextLocation ==
    \/ LocationEnv(\E s \in SIDs : handle_sio_connect(s))
    \/ LocationEnv(\E s \in SIDs : handle_sio_disconnect(s))
    \/ LocationEnv(\E s \in SIDs, data \in LeanRegister :
                      handle_register_device(s, data))
    \/ LocationEnv(\E s \in SIDs :
                      send_command_to_client(s, "get_location", EmptyDict,
                                             NoTimeout))
    \/ LocationEnv(\E s \in SIDs, data \in LocationResponses :
                      handle_command_response(s, data))
    \/ LocationEnv(\E s \in SIDs, data \in MalformedResponses :
                      handle_command_response(s, data))
    \/ LocationEnv(\E s \in SIDs : handle_command_response_not_a_map(s))

SpecLocation == Init /\ [][NextLocation]_vars

\* Responses and timeouts of sessions that stay registered, with every
\* counter increment run as a read followed by a write.
CounterEnv(A) == events < MaxCounterEvents /\ A /\ events' = events + 1

FirstRegistration(s, data) ==
    s \notin DOMAIN connected_clients_sio /\ handle_register_device(s, data)

NextCounters ==
    \/ CounterEnv(Tick(1))
    \/ CounterEnv(\E s \in SIDs : handle_sio_connect(s))
    \/ CounterEnv(\E s \in SIDs, data \in LeanRegister :
                     FirstRegistration(s, data))
    \/ CounterEnv(\E s \in SIDs :
                     send_command_to_client(s, "get_location", EmptyDict, <<0>>))
    \/ CounterEnv(\E s \in SIDs, data \in ResponseData : response_arrive(s, data))
    \/ Own(\E i \in 1..Len(responders) : response_stats_read(i))
    \/ Own(\E i \in 1..Len(responders) : response_stats_write(i))
    \/ Own(\E i \in 1..Len(responders) : response_test(i))
    \/ Own(\E i \in 1..Len(responders) : response_pop(i))
    \/ Own(\E i \in 1..Len(responders) : response_emit(i))
    \/ Own(\E i \in 1..Len(watchers) : monitor_test(i))
    \/ Own(\E i \in 1..Len(watchers) : monitor_pop(i))
    \/ Own(\E i \in 1..Len(watchers) : monitor_stats_test(i))
    \/ Own(\E i \in 1..Len(watchers) : monitor_stats_read(i))
    \/ Own(\E i \in 1..Len(watchers) : monitor_stats_write(i))
    \/ Own(\E i \in 1..Len(watchers) : monitor_emit(i))

SpecCounters == Init /\ [][NextCounters]_vars

\* Operator-side calls that run while sessions register, send heartbeats
\* and disconnect.
CallEnv(A) == events < MaxCallEvents /\ A /\ events' = events + 1

NextCalls ==
    \/ CallEnv(Tick(1))
    \/ CallEnv(\E s \in SIDs : handle_sio_connect(s))
    \/ CallEnv(\E s \in SIDs : handle_sio_disconnect(s))
    \/ CallEnv(\E s \in SIDs, data \in LeanRegister : FirstRegistration(s, data))
    \/ CallEnv(\E s \in SIDs, data \in LeanHeartbeat :
                  handle_device_heartbeat(s, data))
    \/ CallEnv(\E s \in SIDs :
                  dispatch_call(s, "get_location", EmptyDict, NoTimeout))
    \/ CallEnv(active_clients_call)
    \/ Own(\E i \in 1..Len(calls) : dispatch_read(i))
    \/ Own(\E i \in 1..Len(calls) : active_clients_next(i))
    \/ Own(\E i \in 1..Len(calls) : active_clients_body(i))

SpecCalls == Init /\ [][NextCalls]_vars

\* a response that carries a command_id no dispatch has generated
StrayResponses ==
    {[command |-> "get_location", command_id |-> <<"get_location", -1>>,
      status |-> st, payload |-> [accuracy |-> "5"]] :
        st \in {"success", "busy"}}

\* Sessions that register, re-register under another deviceId, send
\* heartbeats, receive commands and answer them or let them time out.
SessionEnv(A) == events < MaxSessionEvents /\ A /\ events' = events + 1

NextSessions ==
    \/ SessionEnv(\E s \in SIDs : handle_sio_connect(s))
    \/ SessionEnv(\E s \in SIDs : handle_sio_disconnect(s))
    \/ SessionEnv(\E s \in SIDs, data \in RegisterPayloads :
                     handle_register_device(s, data))
    \/ SessionEnv(\E s \in SIDs, data \in HeartbeatPayloads :
                     handle_device_heartbeat(s, data))
    \/ SessionEnv(\E s \in SIDs, t \in {NoTimeout, <<0>>} :
                     send_command_to_client(s, "get_location", EmptyDict, t))
    \/ SessionEnv(\E s \in SIDs, data \in ResponseData :
                     handle_command_response(s, data))
    \/ SessionEnv(\E s \in SIDs, data \in StrayResponses :
                     handle_command_response(s, data))
    \/ Own(\E i \in 1..Len(watchers) : monitor_command_timeout(i))

SpecSessions == Init /\ [][NextSessions]_vars

\* Sessions that register once and send heartbeats while the clock moves in
\* ticks of 1/Resolution second or jumps across a status limit, and status
\* reads.
SortEnv(A) == events < MaxSortEvents /\ A /\ events' = events + 1

NextSort ==
    \/ SortEnv(\E d \in {1, ActiveLimit * Resolution} : Tick(d))
    \/ SortEnv(\E s \in SIDs : handle_sio_connect(s))
    \/ SortEnv(\E s \in SIDs, data \in LeanRegister : FirstRegistration(s, data))
    \/ SortEnv(\E s \in SIDs, data \in LeanHeartbeat :
                  handle_device_heartbeat(s, data))
    \/ SortEnv(get_active_clients_ticks)

SpecSort == Init /\ [][NextSort]_vars

\* Dispatches that run statement by statement, from the GUI thread and from
\* request threads, while agents answer and timeout monitors (timeout 0)
\* expire; sessions register once and stay.
DispatchEnv(A) == events < MaxDispatchEvents /\ A /\ events' = events + 1

NextDispatch ==
    \/ DispatchEnv(Tick(1))
    \/ DispatchEnv(\E s \in SIDs : handle_sio_connect(s))
    \/ DispatchEnv(\E s \in SIDs, data \in LeanRegister :
                      FirstRegistration(s, data))
    \/ DispatchEnv(\E s \in SIDs :
                      dispatch_begin(s, "get_location", EmptyDict, <<0>>))
    \/ DispatchEnv(\E s \in SIDs, data \in EmittedResponses :
                      handle_command_response(s, data))
    \/ Own(\E i \in 1..Len(calls) : dispatch_insert(i))
    \/ Own(\E i \in 1..Len(calls) : dispatch_stats(i))
    \/ Own(\E i \in 1..Len(calls) : dispatch_emit(i))
    \/ Own(\E i \in 1..Len(calls) : dispatch_thread(i))
    \/ Own(\E i \in 1..Len(calls) : dispatch_sent(i))
    \/ Own(\E i \in 1..Len(watchers) : monitor_command_timeout(i))

SpecDispatch == Init /\ [][NextDispatch]_vars

\* Sessions that register, send heartbeats and disconnect while the three
\* handlers run as threads.
OrderEnv(A) == events < MaxOrderEvents /\ A /\ events' = events + 1

NextOrder ==
    \/ OrderEnv(\E s \in SIDs : handle_sio_connect(s))
    \/ OrderEnv(\E s \in SIDs, data \in LeanRegister : register_begin(s, data))
    \/ OrderEnv(\E s \in SIDs, data \in LeanHeartbeat : heartbeat_begin(s, data))
    \/ OrderEnv(\E s \in SIDs : disconnect_pop(s))
    \/ Own(\E i \in 1..Len(responders) : register_broadcast(i))
    \/ Own(\E i \in 1..Len(responders) : heartbeat_args(i))
    \/ Own(\E i \in 1..Len(responders) : heartbeat_emit(i))
    \/ Own(\E i \in 1..Len(responders) : disconnect_emit(i))

SpecOrder == Init /\ [][NextOrder]_vars

\* Sessions, dispatches of get_location and responses whose payload is a
\* dict: location reports under both command names, with both statuses and
\* with both, one or no coordinate.
ReportEnv(A) == events < MaxReportEvents /\ A /\ events' = events + 1

NextReports ==
    \/ ReportEnv(\E s \in SIDs : handle_sio_connect(s))
    \/ ReportEnv(\E s \in SIDs : handle_sio_disconnect(s))
    \/ ReportEnv(\E s \in SIDs, data \in LeanRegister :
                    handle_register_device(s, data))
    \/ ReportEnv(\E s \in SIDs :
                    send_command_to_client(s, "get_location", EmptyDict,
                                           NoTimeout))
    \/ ReportEnv(\E s \in SIDs, data \in LocationResponses :
                    handle_command_response(s, data))

SpecReports == Init /\ [][NextReports]_vars

\* the responses that reach _save_location_to_db
SaveReports == {data \in LocationResponses : IsLocationReport(ResponseFields(data))}

\* handle_command_response for a location report, up to the point where
\* _save_location_to_db has built its record (lines 199-281): the thread
\* keeps device_info (whether it is truthy), device_id_str and location_data
save_begin(client_sid, data) ==
    LET f == ResponseFields(data) IN
    /\ client_sid \in open
    /\ data \in SaveReports
    /\ responders' =
           Append(responders,
                  [op |-> "save", sid |-> client_sid, data |-> data,
                   device_id_str |-> DeviceIdStr(connected_clients_sio,
                                                 client_sid),
                   device_info |-> HasDeviceInfo(connected_clients_sio,
                                                 client_sid),
                   location_data |->
                       [latitude |-> f.payload["latitude"],
                        longitude |-> f.payload["longitude"],
                        accuracy |-> Get(f.payload, "accuracy", "0"),
                        timestamp |-> Get(f.payload, "timestamp_gps",
                                          isoformat(now)),
                        recorded_at |-> isoformat(now)],
                   existing_data |-> <<>>, pc |-> "read"])
    /\ last' = [Step("command_response", <<>>) EXCEPT !.sid = client_sid]
    /\ UNCHANGED <<calls, connected_clients_sio, command_queue,
                   location_history, now, open, closed, watchers, broadcasts,
                   registered>>

\* "existing_data = json.load(f)" if the file exists (lines 285-293)
save_read(i) ==
    LET r == responders[i] IN
    /\ r.op = "save" /\ r.pc = "read"
    /\ responders' =
           [responders EXCEPT ![i].existing_data =
                                  Get(location_history, r.device_id_str, <<>>),
                              ![i].pc = "write"]
    /\ last' = Step("command_response", <<>>)
    /\ UNCHANGED <<calls, connected_clients_sio, command_queue,
                   location_history, now, open, closed, watchers, broadcasts,
                   registered>>

\* "existing_data.append(location_data)" and the rewrite of the file (lines
\* 296-300), then the rest of the handler: statistics on the record read at
\* line 200, removal from the queue, command_result (lines 233-263)
save_write(i) ==
    LET r == responders[i]
        f == ResponseFields(r.data)
    IN
    /\ r.op = "save" /\ r.pc = "write"
    /\ location_history' =
           Put(location_history, r.device_id_str,
               Append(r.existing_data, r.location_data))
    /\ connected_clients_sio' =
           IF r.device_info
           THEN ResponseStats(connected_clients_sio, r.sid, f.status)
           ELSE connected_clients_sio
    /\ command_queue' = IF InQueue(command_queue, f.command_id)
                        THEN Pop(command_queue, f.command_id)
                        ELSE command_queue
    /\ responders' = [responders EXCEPT ![i].pc = "done"]
    /\ broadcasts' = Bump(broadcasts, "command_result", f.command_id)
    /\ last' = [Step("command_response", <<ResultMsg(r.device_id_str, f)>>)
                    EXCEPT !.sid = r.sid]
    /\ watchers' = MarkAnswered(watchers, f.command_id)
    /\ UNCHANGED <<calls, now, open, closed, registered>>

\* Location reports of sessions that register once and stay, each handled
\* by a thread of its own that reads the history file and writes it back.
SaveEnv(A) == events < MaxSaveEvents /\ A /\ events' = events + 1

NextSave ==
    \/ SaveEnv(Tick(1))
    \/ SaveEnv(\E s \in SIDs : handle_sio_connect(s))
    \/ SaveEnv(\E s \in SIDs, data \in LeanRegister : FirstRegistration(s, data))
    \/ SaveEnv(\E s \in SIDs, data \in SaveReports : save_begin(s, data))
    \/ Own(\E i \in 1..Len(responders) : save_read(i))
    \/ Own(\E i \in 1..Len(responders) : save_write(i))

SpecSave == Init /\ [][NextSave]_vars

\* Status reads between registrations, heartbeats, dispatches, responses
\* and disconnects, while the clock moves by a second or by a status limit.
ReadEnv(A) == events < MaxReadEvents /\ A /\ events' = events + 1

NextRead ==
    \/ ReadEnv(\E d \in {1, ActiveLimit, IdleLimit} : Tick(d))
    \/ ReadEnv(\E s \in SIDs : handle_sio_connect(s))
    \/ ReadEnv(\E s \in SIDs : handle_sio_disconnect(s))
    \/ ReadEnv(\E s \in SIDs, data \in LeanRegister :
                  handle_register_device(s, data))
    \/ ReadEnv(\E s \in SIDs, data \in LeanHeartbeat :
                  handle_device_heartbeat(s, data))
    \/ ReadEnv(\E s \in SIDs :
                  send_command_to_client(s, "get_location", EmptyDict,
                                         NoTimeout))
    \/ ReadEnv(\E s \in SIDs, data \in ResponseData :
                  handle_command_response(s, data))
    \/ ReadEnv(get_active_clients)

SpecRead == Init /\ [][NextRead]_vars

\* Commands that are answered, or left to their timeout monitors (timeout
\* 0), while their targets disconnect; the response handlers and the
\* monitors run as threads and every started thread keeps being scheduled.
ExpiryEnv(A) == events < MaxExpiryEvents /\ A /\ events' = events + 1

NextExpiry ==
    \/ ExpiryEnv(Tick(1))
    \/ ExpiryEnv(\E s \in SIDs : handle_sio_connect(s))
    \/ ExpiryEnv(\E s \in SIDs : handle_sio_disconnect(s))
    \/ ExpiryEnv(\E s \in SIDs, data \in LeanRegister :
                    handle_register_device(s, data))
    \/ ExpiryEnv(\E s \in SIDs :
                    send_command_to_client(s, "get_location", EmptyDict, <<0>>))
    \/ ExpiryEnv(\E s \in SIDs, data \in ResponseData : response_begin(s, data))
    \/ Own(\E i \in 1..Len(responders) : response_test(i))
    \/ Own(\E i \in 1..Len(responders) : response_pop(i))
    \/ Own(\E i \in 1..Len(responders) : response_emit(i))
    \/ Own(\E i \in 1..Len(watchers) : monitor_test(i))
    \/ Own(\E i \in 1..Len(watchers) : monitor_pop(i))
    \/ Own(\E i \in 1..Len(watchers) : monitor_stats_test(i))
    \/ Own(\E i \in 1..Len(watchers) : monitor_stats(i))
    \/ Own(\E i \in 1..Len(watchers) : monitor_emit(i))

SpecExpiry ==
    /\ Init /\ [][NextExpiry]_vars
    /\ WF_vars(Own(ResponderStep)) /\ WF_vars(Own(MonitorStep))

-----------------------------------------------------------------------------
(* Properties.                                                             *)

\* C1: in every reachable state a session id is a key of the Registry exactly
\* when a register_device event with a non-empty deviceId has been applied
\* for it and no disconnect has been applied for it since.
C1_RegistryIffRegistered ==
    DOMAIN connected_clients_sio = {s \in SIDs : registered[s]}

\* a registered session is in the Registry just after another registered
\* session has been disconnected and removed
C1_Witness ==
    /\ last.op = "disconnect"
    /\ last.out # <<>>
    /\ last.sid \notin DOMAIN connected_clients_sio
    /\ \E s \in SIDs : s \in DOMAIN connected_clients_sio /\ registered[s]

\* how many command_response handlers have removed c's record
Removals(c) ==
    Cardinality({i \in 1..Len(responders) :
                    /\ responders[i].popped
                    /\ ResponseFields(responders[i].data).command_id = c})

\* C2 as stated: command_result and command_timeout are never both broadcast
\* for the command_id of a dispatched command, whatever the interleaving of
\* its responses and its timeout monitor.
C2_NeverBoth ==
    \A c \in KnownIds :
        ~(Count("command_result", c) > 0 /\ Count("command_timeout", c) > 0)

\* C2 amended: a command is never both completed by a response and reported
\* timed out: for every command_id the command_timeout broadcasts and the
\* responses that removed its record together never outnumber its dispatches.
\* (command_result itself is broadcast for every response, also for one that
\* arrives after the timeout.)
C2_AtMostOneTerminal ==
    \A c \in KnownIds :
        Count("command_timeout", c) + Removals(c) <= Count("command_sent", c)

\* a command dispatched once has timed out and a late response has then been
\* broadcast without removing anything
C2_Witness ==
    \E c \in KnownIds :
        /\ Count("command_sent", c) = 1
        /\ Count("command_timeout", c) = 1
        /\ Count("command_result", c) > 0
        /\ Removals(c) = 0

\* C3 as stated: every dispatched command eventually has command_result or
\* command_timeout broadcast for its command_id, when the threads are
\* scheduled fairly, whether or not the agent responds or disconnects.
C3_EventuallyReported ==
    \A t \in 0..MaxRaceEvents :
        (Count("command_sent", CommandId("get_location", t)) > 0)
            ~> (\/ Count("command_result", CommandId("get_location", t)) > 0
                \/ Count("command_timeout", CommandId("get_location", t)) > 0)

\* C4 as stated: when a response and the timeout monitor race for one
\* command_id, the path that loses completes as a no-op on the missing
\* entry: neither pop raises.
C4_LoserIsNoOp ==
    /\ \A i \in 1..Len(responders) : responders[i].pc # "raised_pop"
    /\ \A i \in 1..Len(watchers) : watchers[i].pc # "raised_pop"

C6_UnknownHeartbeat ==
    [][\A s \in SIDs :
          (/\ last'.op = "device_heartbeat"
           /\ last'.sid = s
           /\ s \notin DOMAIN connected_clients_sio)
          => /\ connected_clients_sio' = connected_clients_sio
             /\ last'.out = <<Msg("request_registration_info", s, None)>>]_vars

\* an open session that never registered has sent a heartbeat
C6_Witness ==
    /\ last.op = "device_heartbeat"
    /\ last.sid \in open
    /\ last.sid \notin DOMAIN connected_clients_sio
    /\ Events(last) = {"request_registration_info"}

\* C7: a dispatch to a session that is not in the Registry returns status
\* error, leaves the Registry and the Tracker unchanged, emits no command
\* message and no command_sent broadcast and starts no timeout monitor.
C7_DispatchToAbsent ==
    [][\A s \in SIDs :
          (/\ last'.op = "send_command"
           /\ last'.sid = s
           /\ s \notin DOMAIN connected_clients_sio)
          => /\ last'.result.status = "error"
             /\ connected_clients_sio' = connected_clients_sio
             /\ command_queue' = command_queue
             /\ watchers' = watchers
             /\ broadcasts' = broadcasts
             /\ last'.out = <<>>]_vars

\* a dispatch to a session that has disconnected has failed while another
\* session is registered
C7_Witness ==
    /\ last.op = "send_command"
    /\ last.result.status = "error"
    /\ last.sid \in closed
    /\ DOMAIN connected_clients_sio # {}

\* C8: a dispatch to a session in the Registry returns status sent and the
\* command_id in the same step, without any response being handled; on return
\* the Tracker holds a pending record under that id whose target_sid is the
\* target, the target's commands_sent has grown by exactly one, and no other
\* Registry field and no other session has changed.
C8_DispatchToPresent ==
    [][\A s \in SIDs :
          (/\ last'.op = "send_command"
           /\ last'.sid = s
           /\ s \in DOMAIN connected_clients_sio)
          => LET c == last'.result.command_id
                 before == connected_clients_sio[s]
                 after == connected_clients_sio'[s]
             IN /\ last'.result.status = "sent"
                /\ c \in DOMAIN command_queue'
                /\ command_queue'[c]["status"] = "pending"
                /\ command_queue'[c]["target_sid"] = s
                /\ CountIn(broadcasts', "command_result", c)
                       = Count("command_result", c)
                /\ responders' = responders
                /\ DOMAIN connected_clients_sio' = DOMAIN connected_clients_sio
                /\ \A t \in DOMAIN connected_clients_sio \ {s} :
                       connected_clients_sio'[t] = connected_clients_sio[t]
                /\ DOMAIN after = DOMAIN before
                /\ \A k \in DOMAIN before \ {"commands_sent"} :
                       after[k] = before[k]
                /\ after["commands_sent"] = before["commands_sent"] + 1]_vars

\* a command has been dispatched to one of two registered sessions after the
\* clock has moved on from their registration
C8_Witness ==
    /\ last.op = "send_command"
    /\ last.result.status = "sent"
    /\ Cardinality(DOMAIN connected_clients_sio) = 2
    /\ connected_clients_sio[last.sid]["commands_sent"] = 1
    /\ now > fromisoformat(connected_clients_sio[last.sid]["last_seen"])

\* C9 as stated: when the timeout of a dispatched command elapses, no
\* command_response for it has arrived and its target has stayed connected,
\* the expiry broadcasts exactly one command_timeout carrying its command_id
\* and the target's commands_failed grows by exactly one.
C9_TimeoutCounted ==
    [][\A i \in 1..Len(watchers) :
          LET w == watchers[i]
              c == w.command_id
          IN (/\ w.pc = "wait"
              /\ watchers'[i].pc = "done"
              /\ w.stayed
              /\ Count("command_result", c) = 0)
             => /\ last'.out = <<Msg("command_timeout", Broadcast, c)>>
                /\ CountIn(broadcasts', "command_timeout", c)
                       = Count("command_timeout", c) + 1
                /\ w.target \in DOMAIN connected_clients_sio'
                /\ connected_clients_sio'[w.target]["commands_failed"]
                       = connected_clients_sio[w.target]["commands_failed"] + 1]_vars

\* C10: the status get_active_clients reports for a session depends on
\* elapsed = now - last_seen alone: active when elapsed < 60, idle when
\* 60 <= elapsed < 300, stale when elapsed >= 300, whatever status the
\* Registry held or a heartbeat supplied; every session is reported.
C10_StatusByElapsed ==
    [][last'.op = "get_active_clients"
       => /\ {last'.result[k].sid : k \in 1..Len(last'.result)}
                 = DOMAIN connected_clients_sio
          /\ \A k \in 1..Len(last'.result) :
                LET e == last'.result[k]
                    elapsed == now - connected_clients_sio[e.sid]["last_seen"][2]
                IN /\ (elapsed < 60) => (e.status = "active")
                   /\ (60 <= elapsed /\ elapsed < 300) => (e.status = "idle")
                   /\ (elapsed >= 300) => (e.status = "stale")
                   /\ connected_clients_sio'[e.sid]["status"] = e.status]_vars

\* a status read has reported a session exactly at the first limit as idle
\* next to a session that has just been seen
C10_Witness ==
    /\ last.op = "get_active_clients"
    /\ Len(last.result) = 2
    /\ last.result[1].time_since_last_seen = 0
    /\ last.result[1].status = "active"
    /\ last.result[2].time_since_last_seen = 60
    /\ last.result[2].status = "idle"

\* C11: get_active_clients returns exactly one entry for each session in the
\* Registry and no other entry, each with that session's stored counters; in
\* particular a single registered session that no command was dispatched to
\* and that was last seen less than 60 seconds ago is returned as one entry
\* with status active and commands_sent 0.
C11_OneEntryPerSession ==
    [][last'.op = "get_active_clients"
       => LET r == last'.result IN
          /\ Len(r) = Cardinality(DOMAIN connected_clients_sio)
          /\ {r[k].sid : k \in 1..Len(r)} = DOMAIN connected_clients_sio
          /\ \A k \in 1..Len(r) :
                LET stored == connected_clients_sio[r[k].sid] IN
                /\ r[k].commands_sent = stored["commands_sent"]
                /\ r[k].commands_succeeded = stored["commands_succeeded"]
                /\ r[k].commands_failed = stored["commands_failed"]
                /\ (/\ Cardinality(DOMAIN connected_clients_sio) = 1
                    /\ \A i \in 1..Len(watchers) : watchers[i].target # r[k].sid
                    /\ now - stored["last_seen"][2] < 60)
                   => (r[k].status = "active" /\ r[k].commands_sent = 0)]_vars

\* the read after register, a heartbeat one second later and no dispatch
\* has returned one active entry with commands_sent 0
C11_Witness ==
    /\ last.op = "get_active_clients"
    /\ Len(last.result) = 1
    /\ last.result[1].status = "active"
    /\ last.result[1].commands_sent = 0
    /\ last.result[1].last_seen # last.result[1].connected_at
    /\ last.result[1].time_since_last_seen = 1
    /\ watchers = <<>>

\* C13: a register_device event whose deviceId is absent or empty leaves the
\* Registry unchanged and emits registration_failed to that peer and nothing
\* else (no registration_successful, no client_connected).
C13_MissingIdentityRefused ==
    [][\A s \in SIDs, data \in RegisterPayloads :
          (~HasDeviceId(data) /\ handle_register_device(s, data))
          => /\ connected_clients_sio' = connected_clients_sio
             /\ last'.out = <<Msg("registration_failed", s, None)>>]_vars

\* a session whose registration was refused is not in the Registry while
\* another session is
C13_Witness ==
    /\ last.op = "register_device"
    /\ last.result = "failed"
    /\ last.sid \notin DOMAIN connected_clients_sio
    /\ DOMAIN connected_clients_sio # {}

\* C12 as stated: a successful command_response for a location command
\* (get_location or command_get_location) whose payload contains latitude and
\* longitude appends exactly one record to the location history of the device that
\* owns the responding session, and its command_result broadcast carries the
\* map link.
C12_LocationRecorded ==
    [][\A s \in SIDs, data \in LocationResponses :
          (/\ data.status = "success"
           /\ "latitude" \in DOMAIN data.payload
           /\ "longitude" \in DOMAIN data.payload
           /\ handle_command_response(s, data))
          => LET dev == DeviceIdStr(connected_clients_sio, s) IN
             /\ Len(Get(location_history', dev, <<>>))
                    = Len(Get(location_history, dev, <<>>)) + 1
             /\ "maps_url" \in DOMAIN last'.out[1].payload]_vars

\* C14 as stated: in every reachable state a command_id is a key of the
\* Tracker exactly when a successful dispatch returned it and since that
\* dispatch no command_response carrying it has been handled and the
\* dispatch's timeout monitor has not performed its expiry check.
C14_TrackedIffOutstanding ==
    /\ DOMAIN command_queue \subseteq KnownIds
    /\ \A c \in KnownIds :
          c \in DOMAIN command_queue
              <=> \E i \in 1..Len(watchers) :
                      /\ watchers[i].command_id = c
                      /\ watchers[i].pc = "wait"
                      /\ ~watchers[i].answered

\* the increments of commands_failed of session s that have completed, and
\* those that are between their read and their write
FailedIncrements(s) ==
    Cardinality({i \in 1..Len(responders) :
                    /\ responders[i].sid = s
                    /\ responders[i].read # <<>>
                    /\ responders[i].pc # "stats_write"
                    /\ StatsCounter(ResponseFields(responders[i].data).status)
                           = "commands_failed"})
    + Cardinality({i \in 1..Len(watchers) :
                      /\ watchers[i].target = s
                      /\ watchers[i].client_info # EmptyDict
                      /\ watchers[i].pc # "stats_write"})

IncrementsInProgress(s) ==
    \/ \E i \in 1..Len(responders) :
          responders[i].sid = s /\ responders[i].pc = "stats_write"
    \/ \E i \in 1..Len(watchers) :
          watchers[i].target = s /\ watchers[i].pc = "stats_write"

\* C15 as stated: when the increments of one counter of one session that
\* response handlers and timeout monitors have started have all completed,
\* the counter has grown by exactly their number (no lost update).
C15_NoLostUpdate ==
    \A s \in DOMAIN connected_clients_sio :
        ~IncrementsInProgress(s)
            => connected_clients_sio[s]["commands_failed"] = FailedIncrements(s)

\* C16 as stated: send_command_to_client always returns a result with status
\* sent or error and never raises, also when the target disconnects between
\* the membership test and the read of the target's record.
C16_DispatchNeverRaises ==
    \A i \in 1..Len(calls) :
        calls[i].op = "send_command"
            => /\ calls[i].pc # "raised"
               /\ calls[i].pc = "returned"
                      => calls[i].result.status \in {"sent", "error"}

\* C17 as stated: get_active_clients running next to register, heartbeat and
\* disconnect handlers never fails because the Registry changed during the
\* iteration, and in every entry it returns status, time_since_last_seen and
\* last_seen derive from one last_seen value.
C17_ConsistentSnapshot ==
    \A i \in 1..Len(calls) :
        calls[i].op = "get_active_clients"
            => /\ calls[i].pc # "raised"
               /\ calls[i].pc = "returned"
                      => \A k \in 1..Len(calls[i].result) :
                            LET e == calls[i].result[k] IN
                            /\ e.time_since_last_seen
                                   = calls[i].current_time - e.last_seen[2]
                            /\ e.status = StatusOf(e.time_since_last_seen)

\* an inbound event of session s is handled
InboundEvent(s) ==
    \/ handle_sio_connect(s)
    \/ handle_sio_disconnect(s)
    \/ \E data \in LeanRegister : handle_register_device(s, data)
    \/ \E data \in LeanHeartbeat : handle_device_heartbeat(s, data)
    \/ \E data \in ResponseData : handle_command_response(s, data)

\* C18: handling an inbound event (connect, register_device,
\* device_heartbeat, command_response, disconnect) of session A, whether it
\* succeeds or fails, leaves the Registry record of every other session
\* unchanged.
C18_OtherSessionsUntouched ==
    [][\A a \in SIDs :
          InboundEvent(a)
          => \A b \in DOMAIN connected_clients_sio \ {a} :
                /\ b \in DOMAIN connected_clients_sio'
                /\ connected_clients_sio'[b] = connected_clients_sio[b]]_vars

\* a failed response of one registered session has been counted on its
\* record and not on the other registered session's
C18_Witness ==
    /\ last.op = "command_response"
    /\ Cardinality(DOMAIN connected_clients_sio) = 2
    /\ last.sid \in DOMAIN connected_clients_sio
    /\ connected_clients_sio[last.sid]["commands_failed"] = 1
    /\ \A b \in DOMAIN connected_clients_sio \ {last.sid} :
          connected_clients_sio[b]["commands_failed"] = 0

\* a register_device of s stores a fresh record for s
StoresFreshRecord(s) ==
    \E data \in LeanRegister : HasDeviceId(data) /\ handle_register_device(s, data)

\* C19: over the lifetime of a session's Registry record (from the
\* register_device that stored it until a disconnect or a register_device
\* that stores a fresh one) its last_seen never decreases, and it changes
\* only in a step that handles a device_heartbeat or a command_response of
\* that session.
C19_LastSeenMonotone ==
    [][\A s \in DOMAIN connected_clients_sio :
          (s \in DOMAIN connected_clients_sio' /\ ~StoresFreshRecord(s))
          => /\ connected_clients_sio'[s]["last_seen"][2]
                    >= connected_clients_sio[s]["last_seen"][2]
             /\ connected_clients_sio'[s]["last_seen"]
                    # connected_clients_sio[s]["last_seen"]
                => \/ \E data \in LeanHeartbeat :
                          handle_device_heartbeat(s, data)
                   \/ \E data \in ResponseData :
                          handle_command_response(s, data)]_vars

\* a heartbeat has moved a session's last_seen past the time of its
\* registration after a failure has been counted on its record
C19_Witness ==
    /\ last.op = "device_heartbeat"
    /\ last.sid \in DOMAIN connected_clients_sio
    /\ connected_clients_sio[last.sid]["last_seen"][2]
           > connected_clients_sio[last.sid]["connected_at"][2]
    /\ connected_clients_sio[last.sid]["commands_failed"] = 1

\* C20 as stated: a command_response whose event data or whose payload is
\* not a key-value map is dropped: no exception leaves the handler, the
\* Registry, the Tracker and the location history are unchanged and no
\* command_result is broadcast for it.
C20_MalformedDropped ==
    [][\A s \in SIDs :
          (\/ handle_command_response_not_a_map(s)
           \/ \E data \in MalformedResponses : handle_command_response(s, data))
          => /\ last'.result = None
             /\ last'.out = <<>>
             /\ connected_clients_sio' = connected_clients_sio
             /\ command_queue' = command_queue
             /\ location_history' = location_history
             /\ broadcasts' = broadcasts]_vars

\* the value of field k is the same in records a and b (absent in both, or
\* present in both and equal)
SameField(a, b, k) ==
    /\ (k \in DOMAIN a) <=> (k \in DOMAIN b)
    /\ k \in DOMAIN a => a[k] = b[k]

\* C21: a device_heartbeat from a registered session sets last_seen to the
\* time of handling, sets status, battery and network each exactly when the
\* heartbeat data is a dict that supplies the key and leaves each of them
\* alone otherwise, leaves every other field of the record and the Tracker
\* unchanged, sends heartbeat_ack to the peer and broadcasts
\* client_status_update.
C21_HeartbeatFrame ==
    [][\A s \in SIDs, data \in HeartbeatPayloads :
          (s \in DOMAIN connected_clients_sio /\ handle_device_heartbeat(s, data))
          => LET old == connected_clients_sio[s]
                 new == connected_clients_sio'[s]
             IN /\ s \in DOMAIN connected_clients_sio'
                /\ new["last_seen"] = isoformat(now)
                /\ \A k \in {"status", "battery", "network"} :
                      IF data.isdict /\ k \in DOMAIN data.d
                      THEN k \in DOMAIN new /\ new[k] = data.d[k]
                      ELSE SameField(old, new, k)
                /\ \A k \in (DOMAIN old \cup DOMAIN new)
                            \ {"last_seen", "status", "battery", "network"} :
                      SameField(old, new, k)
                /\ command_queue' = command_queue
                /\ \E i \in 1..Len(last'.out) :
                      /\ last'.out[i].event = "heartbeat_ack"
                      /\ last'.out[i].room = s
                /\ \E i \in 1..Len(last'.out) :
                      /\ last'.out[i].event = "client_status_update"
                      /\ last'.out[i].room = Broadcast]_vars

\* C21 witness: a heartbeat that supplied a status has been handled for a
\* session that registered at an earlier clock reading
C21_Witness ==
    /\ last.op = "device_heartbeat"
    /\ last.sid \in DOMAIN connected_clients_sio
    /\ "client_status_update" \in Events(last)
    /\ connected_clients_sio[last.sid]["status"] = "busy"
    /\ connected_clients_sio[last.sid]["last_seen"] = isoformat(now)
    /\ connected_clients_sio[last.sid]["connected_at"] # isoformat(now)

\* C22: a disconnect of a session that is in the Registry deletes exactly
\* that session's entry and broadcasts client_disconnected with the device_id
\* the session last registered; a disconnect of a session that is not in the
\* Registry leaves the Registry as it is and broadcasts no
\* client_disconnected.  "Last registered" is carried by the second and third
\* conjunct: a record's id is the deviceId of the register_device that stored
\* it, and nothing else ever changes it.
C22_DisconnectRemovesOne ==
    [][/\ \A s \in SIDs :
             handle_sio_disconnect(s)
             => IF s \in DOMAIN connected_clients_sio
                THEN /\ DOMAIN connected_clients_sio' =
                            DOMAIN connected_clients_sio \ {s}
                     /\ \A t \in DOMAIN connected_clients_sio' :
                            connected_clients_sio'[t] = connected_clients_sio[t]
                     /\ last'.out =
                            <<Msg("client_disconnected", Broadcast,
                                  connected_clients_sio[s]["id"])>>
                ELSE /\ connected_clients_sio' = connected_clients_sio
                     /\ "client_disconnected" \notin Events(last')
       /\ \A s \in DOMAIN connected_clients_sio' :
             (\/ s \notin DOMAIN connected_clients_sio
              \/ connected_clients_sio'[s]["id"] # connected_clients_sio[s]["id"])
             => \E data \in RegisterPayloads :
                   /\ handle_register_device(s, data)
                   /\ HasDeviceId(data)
                   /\ connected_clients_sio'[s]["id"] = data["deviceId"]]_vars

\* C22 witness: a session that registered as d2 has disconnected, its
\* client_disconnected carries d2, and another session is still registered
C22_Witness ==
    /\ last.op = "disconnect"
    /\ last.out = <<Msg("client_disconnected", Broadcast, "d2")>>
    /\ last.sid \notin DOMAIN connected_clients_sio
    /\ DOMAIN connected_clients_sio # {}

\* C23: a successful register_device on a session_id that already has a
\* Registry entry replaces the entry wholesale: the Registry has the same
\* keys as before, the other entries are unchanged, the entry of the
\* session holds the new deviceId, commands_sent, commands_succeeded and
\* commands_failed 0 and status active, keeps no battery or network of the
\* replaced record, and client_connected is broadcast with the new deviceId.
C23_ReRegistrationOverwrites ==
    [][\A s \in SIDs, data \in RegisterPayloads :
          (/\ s \in DOMAIN connected_clients_sio
           /\ HasDeviceId(data)
           /\ handle_register_device(s, data))
          => LET new == connected_clients_sio'[s] IN
             /\ DOMAIN connected_clients_sio' = DOMAIN connected_clients_sio
             /\ \A t \in DOMAIN connected_clients_sio \ {s} :
                    connected_clients_sio'[t] = connected_clients_sio[t]
             /\ new["id"] = data["deviceId"]
             /\ new["commands_sent"] = 0
             /\ new["commands_succeeded"] = 0
             /\ new["commands_failed"] = 0
             /\ new["status"] = "active"
             /\ "battery" \notin DOMAIN new
             /\ "network" \notin DOMAIN new
             /\ \E i \in 1..Len(last'.out) :
                    last'.out[i] = Msg("client_connected", Broadcast,
                                       data["deviceId"])]_vars

\* C23 witness: a session that has been in the Registry since a command was
\* dispatched to it has just registered as d2, and its commands_sent is 0
C23_Witness ==
    /\ last.op = "register_device"
    /\ last.result = "registered"
    /\ \E i \in 1..Len(watchers) :
          watchers[i].target = last.sid /\ watchers[i].stayed
    /\ connected_clients_sio[last.sid]["id"] = "d2"
    /\ connected_clients_sio[last.sid]["commands_sent"] = 0

\* C24: when a timeout watcher removes a still-pending record it broadcasts
\* command_timeout for that command_id whether or not the target is
\* registered; it adds one to commands_failed of the record's target session
\* exactly when that session is in the Registry at that moment and changes
\* nothing else in the Registry; when the target is absent the Registry is
\* unchanged.
C24_ExpiryCountsIfPresent ==
    [][\A i \in 1..Len(watchers) :
          (/\ watchers[i].command_id \in DOMAIN command_queue
           /\ monitor_command_timeout(i))
          => LET command_id == watchers[i].command_id
                 target_sid == command_queue[command_id]["target_sid"]
             IN /\ command_id \notin DOMAIN command_queue'
                /\ last'.out = <<Msg("command_timeout", Broadcast, command_id)>>
                /\ CountIn(broadcasts', "command_timeout", command_id)
                       = Count("command_timeout", command_id) + 1
                /\ DOMAIN connected_clients_sio' = DOMAIN connected_clients_sio
                /\ \A s \in DOMAIN connected_clients_sio :
                      IF s = target_sid
                      THEN /\ connected_clients_sio'[s]["commands_failed"]
                                  = connected_clients_sio[s]["commands_failed"] + 1
                           /\ \A k \in DOMAIN connected_clients_sio[s]
                                           \ {"commands_failed"} :
                                  SameField(connected_clients_sio[s],
                                            connected_clients_sio'[s], k)
                      ELSE connected_clients_sio'[s] = connected_clients_sio[s]
            ]_vars

\* C24 witness: a watcher has just removed a pending record whose target had
\* disconnected, and command_timeout was broadcast for it
C24_Witness ==
    /\ last.op = "monitor_timeout"
    /\ last.out = <<Msg("command_timeout", Broadcast, last.result)>>
    /\ \E i \in 1..Len(watchers) :
          /\ watchers[i].pc = "done"
          /\ watchers[i].command_id = last.result
          /\ watchers[i].command_info # EmptyDict
          /\ watchers[i].command_info["target_sid"]
                 \notin DOMAIN connected_clients_sio
          /\ watchers[i].command_info["target_sid"] \in closed

\* C25 as stated: handling a command_response for a command_id that is in
\* the Tracker updates the counters of the session recorded as target_sid of
\* that command: status success adds 1 to its commands_succeeded, status
\* error or failed adds 1 to its commands_failed, any other status changes
\* nothing; no counter of any other session changes.
C25_OwnerCounted ==
    [][\A s \in SIDs, data \in ResponseData :
          (/\ "command_id" \in DOMAIN data
           /\ InQueue(command_queue, Get(data, "command_id", NoCommandId))
           /\ handle_command_response(s, data))
          => LET owner == command_queue[data["command_id"]]["target_sid"]
                 status == Get(data, "status", "unknown")
                 Added(t, k) ==
                     IF /\ t = owner
                        /\ \/ k = "commands_succeeded" /\ status = "success"
                           \/ k = "commands_failed"
                                  /\ status \in {"error", "failed"}
                     THEN 1 ELSE 0
             IN /\ DOMAIN connected_clients_sio' = DOMAIN connected_clients_sio
                /\ \A t \in DOMAIN connected_clients_sio :
                      \A k \in {"commands_succeeded", "commands_failed"} :
                          connected_clients_sio'[t][k]
                              = connected_clients_sio[t][k] + Added(t, k)]_vars

\* C26: every command_response the handler has handled causes exactly one
\* command_result broadcast, which carries the response's command_id, status
\* and payload (None, "unknown" and the empty dict for the fields the
\* response leaves out), whether the command_id is in the Tracker, has
\* already timed out, was never dispatched or is absent.
C26_ResultAlwaysForwarded ==
    [][\A s \in SIDs, data \in ResponseData \cup StrayResponses :
          handle_command_response(s, data)
          => LET command_id == Get(data, "command_id", NoCommandId) IN
             /\ Len(last'.out) = 1
             /\ last'.out[1].event = "command_result"
             /\ last'.out[1].room = Broadcast
             /\ last'.out[1].key = command_id
             /\ last'.out[1].status = Get(data, "status", "unknown")
             /\ last'.out[1].payload = Get(data, "payload", EmptyDict)
             /\ CountIn(broadcasts', "command_result", command_id)
                    = Count("command_result", command_id) + 1
             /\ \A k \in DOMAIN broadcasts :
                    k # <<"command_result", command_id>>
                    => broadcasts'[k] = broadcasts[k]]_vars

\* C26 witness: a response has been forwarded for a command_id whose
\* command_timeout had been broadcast before and which is no longer tracked
C26_Witness ==
    /\ last.op = "command_response"
    /\ Len(last.out) = 1
    /\ last.out[1].event = "command_result"
    /\ last.out[1].key \notin DOMAIN command_queue
    /\ Count("command_timeout", last.out[1].key) = 1
    /\ Count("command_result", last.out[1].key) = 1

\* C27 as stated: the command_id a successful dispatch generates differs
\* from every command_id generated before, so the dispatch adds one new key
\* to the Tracker and overwrites no pending record.
C27_FreshCommandId ==
    [][\A s \in SIDs, t \in {NoTimeout, <<0>>} :
          (/\ s \in DOMAIN connected_clients_sio
           /\ send_command_to_client(s, "get_location", EmptyDict, t))
          => LET command_id == last'.result.command_id IN
             /\ last'.result.status = "sent"
             /\ command_id \notin KnownIds
             /\ command_id \notin DOMAIN command_queue
             /\ DOMAIN command_queue' = DOMAIN command_queue \cup {command_id}
             /\ \A c \in DOMAIN command_queue :
                    command_queue'[c] = command_queue[c]]_vars

\* C28 as stated: the list get_active_clients returns is ordered by status
\* rank (active < idle < stale) and then by ascending elapsed time since
\* last_seen: of two adjacent entries the earlier one has the lower rank, or
\* the same rank and an elapsed time (the time of the call minus the entry's
\* last_seen) that is not greater.
C28_OrderedByElapsed ==
    last.op = "get_active_clients"
    => \A i \in 1..(Len(last.result) - 1) :
          LET a == last.result[i]
              b == last.result[i + 1]
          IN \/ StatusRank(a.status) < StatusRank(b.status)
             \/ /\ StatusRank(a.status) = StatusRank(b.status)
                /\ now - fromisoformat(a.last_seen)
                       <= now - fromisoformat(b.last_seen)

\* C29 as stated: a dispatch inserts its Tracker record, increments
\* commands_sent, emits the command message, starts the timeout watcher and
\* broadcasts command_sent, in that order; hence, in every behaviour, when
\* the command message for a command_id is emitted the Tracker holds that
\* command_id, and a command_response is handled for a dispatched command
\* only after its record was inserted.
C29_CommandAfterRecord ==
    [][/\ \A i \in 1..Len(calls) :
             dispatch_emit(i)
             => /\ calls[i].command_id \in DOMAIN command_queue
                /\ connected_clients_sio[calls[i].target_sid]["commands_sent"] > 0
       /\ \A i \in 1..Len(calls) :
             dispatch_sent(i)
             => \E j \in 1..Len(watchers) :
                    watchers[j].command_id = calls[i].command_id
       /\ \A s \in SIDs, data \in EmittedResponses :
             handle_command_response(s, data)
             => \E i \in 1..Len(calls) :
                    /\ calls[i].op = "dispatch"
                    /\ calls[i].command_id = data["command_id"]
                    /\ calls[i].pc \notin {"insert"}]_vars

\* C30 as stated: broadcasts about one session follow the order of the
\* Registry mutations, under every interleaving of the handlers.  A
\* registration is written while the session's connection is open, hence
\* before the session's removal; so when client_connected is broadcast for
\* a session no client_disconnected has been broadcast for it yet, and the
\* same holds when client_status_update is broadcast.
C30_BroadcastsFollowMutations ==
    [][\A i \in 1..Len(responders) :
          (register_broadcast(i) \/ heartbeat_emit(i))
          => Count("client_disconnected", responders[i].sid) = 0]_vars

\* the event data of a recognized location report: the location command
\* name, status success, a payload with both coordinates
RecognizedReport(data) ==
    /\ "command" \in DOMAIN data /\ data["command"] = "command_get_location"
    /\ "status" \in DOMAIN data /\ data["status"] = "success"
    /\ "payload" \in DOMAIN data
    /\ {"latitude", "longitude"} \subseteq DOMAIN data["payload"]

\* C31: a command_response appends a LocationRecord and adds map-link fields
\* to its payload only when it is a recognized location report; every other
\* command_response leaves every location history as it was and forwards
\* the payload as it received it.
C31_OnlyRecognizedReports ==
    [][\A s \in SIDs, data \in LocationResponses :
          (handle_command_response(s, data) /\ ~RecognizedReport(data))
          => /\ location_history' = location_history
             /\ last'.out[1].payload = data["payload"]]_vars

\* C31 witness: a recognized location report has been handled, its record is
\* in a history and the forwarded payload carries the map link.
C31_Witness ==
    /\ last.op = "command_response"
    /\ Len(last.out) = 1
    /\ last.out[1].command = "command_get_location"
    /\ last.out[1].status = "success"
    /\ "maps_url" \in DOMAIN last.out[1].payload
    /\ \E d \in DOMAIN location_history : Len(location_history[d]) > 0

\* the saves for one device whose write has completed
CompletedSaves(device_id) ==
    Cardinality({i \in 1..Len(responders) :
                    /\ responders[i].op = "save"
                    /\ responders[i].pc = "done"
                    /\ responders[i].device_id_str = device_id})

\* C32 as stated: the location history of a device is append-only under
\* every interleaving of the handlers: no step changes or removes a record
\* a history holds or shortens a history, and after every step a history
\* holds one record for every save that completed.
C32_HistoryAppendOnly ==
    [][/\ \A d \in DOMAIN location_history :
             /\ d \in DOMAIN location_history'
             /\ Len(location_history'[d]) >= Len(location_history[d])
             /\ SubSeq(location_history'[d], 1, Len(location_history[d]))
                    = location_history[d]
       /\ \A d \in DOMAIN location_history' :
             Len(location_history'[d]) = CompletedSaves(d)']_vars

\* C33: get_active_clients leaves the Tracker, the Registry's key set and
\* every Registry field other than status unchanged, and sets the status of
\* every session to the class of the time elapsed since its last_seen.
C33_ReadAccessor ==
    [][get_active_clients
       => /\ command_queue' = command_queue
          /\ DOMAIN connected_clients_sio' = DOMAIN connected_clients_sio
          /\ \A s \in DOMAIN connected_clients_sio :
                LET old == connected_clients_sio[s]
                    new == connected_clients_sio'[s]
                    elapsed == now - fromisoformat(old["last_seen"])
                IN /\ DOMAIN new = DOMAIN old \cup {"status"}
                   /\ \A k \in DOMAIN old \ {"status"} : new[k] = old[k]
                   /\ new["status"] =
                          IF elapsed < ActiveLimit THEN "active"
                          ELSE IF elapsed < IdleLimit THEN "idle"
                          ELSE "stale"]_vars

\* C33 witness: a status read has run while a command was pending for a
\* session with a counted dispatch, and has set that session's status to a
\* class other than active.
C33_Witness ==
    /\ last.op = "get_active_clients"
    /\ \E s \in DOMAIN connected_clients_sio :
          /\ connected_clients_sio[s]["status"] \in {"idle", "stale"}
          /\ connected_clients_sio[s]["commands_sent"] > 0
          /\ \E id \in DOMAIN command_queue : command_queue[id].target_sid = s

\* the three status classes
StatusClasses == {"active", "idle", "stale"}

\* C34 as stated: in every reachable state the status stored in each
\* Registry record is one of active, idle, stale, and so is the status of
\* every client_status_update broadcast, whatever the heartbeats supply.
C34_StatusIsAClass ==
    /\ \A s \in DOMAIN connected_clients_sio :
          "status" \in DOMAIN connected_clients_sio[s]
          => connected_clients_sio[s]["status"] \in StatusClasses
    /\ \A i \in 1..Len(last.out) :
          last.out[i].event = "client_status_update"
          => last.out[i].status \in StatusClasses

\* C35 as stated: in every reachable state and for every session in the
\* Registry, commands_succeeded + commands_failed <= commands_sent.
C35_OutcomesWithinSent ==
    \A s \in DOMAIN connected_clients_sio :
        connected_clients_sio[s]["commands_succeeded"]
            + connected_clients_sio[s]["commands_failed"]
        <= connected_clients_sio[s]["commands_sent"]

\* C36 as stated: handling a command_response whose command_id is not in
\* the Tracker (timed out, completed, absent or never dispatched) changes no
\* counter of any session.
C36_UntrackedNotCounted ==
    [][\A s \in SIDs, data \in ResponseData \cup StrayResponses :
          (/\ Get(data, "command_id", NoCommandId) \notin DOMAIN command_queue
           /\ handle_command_response(s, data))
          => /\ DOMAIN connected_clients_sio' = DOMAIN connected_clients_sio
             /\ \A t \in DOMAIN connected_clients_sio :
                   \A k \in {"commands_sent", "commands_succeeded",
                             "commands_failed"} :
                       connected_clients_sio'[t][k]
                           = connected_clients_sio[t][k]]_vars

\* C37 as stated: a command_response removes a Tracker record only when it
\* comes from the record's target_sid; sent by any other session with that
\* command_id it leaves the record pending.
C37_OnlyTargetCompletes ==
    [][\A s \in SIDs, data \in ResponseData :
          (/\ "command_id" \in DOMAIN data
           /\ data["command_id"] \in DOMAIN command_queue
           /\ command_queue[data["command_id"]]["target_sid"] # s
           /\ handle_command_response(s, data))
          => command_queue' = command_queue]_vars

\* C38: a disconnect leaves the Tracker unchanged; while a record is in the
\* Tracker a timeout monitor of its command_id has its expiry check still
\* ahead, whether or not the target is connected; and with the threads
\* scheduled fairly every record in the Tracker is eventually removed.
C38_PendingOutliveDisconnect ==
    /\ [][\A s \in SIDs :
             handle_sio_disconnect(s) => command_queue' = command_queue]_vars
    /\ [](\A id \in DOMAIN command_queue :
             \E i \in 1..Len(watchers) :
                 /\ watchers[i].command_id = id
                 /\ watchers[i].pc \in {"wait", "pop"})
    /\ \A t \in 0..MaxExpiryEvents :
          (CommandId("get_location", t) \in DOMAIN command_queue)
              ~> (CommandId("get_location", t) \notin DOMAIN command_queue)

\* C38 witness: a command is pending in the Tracker for a session that has
\* disconnected since the dispatch.
C38_Witness ==
    \E id \in DOMAIN command_queue :
        LET s == command_queue[id]["target_sid"] IN
        /\ s \in closed
        /\ s \notin open
        /\ s \notin DOMAIN connected_clients_sio

\* C39 as stated: under every interleaving of a device_heartbeat handler and
\* a disconnect handler for the same session the heartbeat handler finishes
\* without raising, and a session whose disconnect has been handled is
\* absent from the Registry.
C39_HeartbeatSurvivesDisconnect ==
    /\ \A i \in 1..Len(responders) :
          responders[i].op = "device_heartbeat" => responders[i].pc # "raised"
    /\ \A s \in closed \ open : s \notin DOMAIN connected_clients_sio

\* C40 as stated: a timeout monitor that has removed a record from the
\* Tracker goes on to broadcast command_timeout for it, also when the target
\* disconnects between the monitor's Registry membership test and its read
\* of the target's record: no monitor that has popped a record ends in an
\* exception before the broadcast.
C40_WatcherReportsRemoval ==
    \A i \in 1..Len(watchers) :
        watchers[i].command_info # EmptyDict
        => watchers[i].pc # "raised_stats"

====
